---- MODULE Spec2Model ----
(***************************************************************************)
(* The table-based training-plan extraction pipeline of the PDF service    *)
(* (services/pdf/app/parser.py): parse_week_date, parse_distance_from_text,*)
(* classify_workout_type, parse_workout_cell and the page/table/row walk   *)
(* of extract_workouts_from_pdf; and the plan, workout and run services of *)
(* the trainer service over their three tables.                            *)
(*                                                                         *)
(* A text is a sequence of one-character strings; Chars turns a string     *)
(* literal into that form.  An Optional value is None (the empty tuple) or *)
(* a non-empty tuple or record; an Optional text is NoneText or a text.    *)
(***************************************************************************)
EXTENDS Integers, Sequences, FiniteSets, TLC

VARIABLES
    pc,               \* where the running call stands
    callee,           \* the function that was invoked
    arg,              \* the argument of a call of one of the pure functions
    ret,              \* the value that call returned
    now,              \* datetime.now(): the current date <<year, month, day>>
    doc,              \* the decoded document behind pdf_bytes
    page_num,         \* extract_workouts_from_pdf: index of the page being walked
    table_num,        \* index of the table being walked in that page
    row_num,          \* index of the row being walked in that table
    day_col_indices,  \* the header's day -> column map, in insertion order
    workouts,         \* the accumulator
    exc,              \* the exception raised inside the try block, None when there is none
    result,           \* what extract_workouts_from_pdf returned
    plans,            \* the plans table: id -> row
    db_workouts,      \* the workouts table: id -> row
    runs,             \* the runs table: id -> row
    ids,              \* the ids given to rows so far (a UUID is never given twice)
    request,          \* the service call made last
    raised,           \* the exception that call raised, None when it returned
    post_num,         \* import_pdf: index of the record being posted
    posts,            \* the create-workout POSTs sent, each with what came back
    workouts_created, \* import_pdf: the counter of created workouts
    workouts_failed,  \* import_pdf: the counter of failed workouts
    response,         \* what import_pdf answered, None while it has not
    users,            \* the auth service's users table: the committed rows
    reg               \* the register requests: id -> position, email and answer

vars == <<pc, callee, arg, ret, now, doc, page_num, table_num, row_num,
          day_col_indices, workouts, exc, result, plans, db_workouts, runs, ids,
          request, raised, post_num, posts, workouts_created, workouts_failed, response,
          users, reg>>

callVars == <<pc, callee, arg, ret, now>>

walkVars == <<doc, page_num, table_num, row_num, day_col_indices, workouts, exc, result>>

dbVars == <<plans, db_workouts, runs, ids, request, raised>>

importVars == <<post_num, posts, workouts_created, workouts_failed, response>>

authVars == <<users, reg>>

\* no service call was made: the tables are empty
IdleDb ==
    /\ plans = <<>>
    /\ db_workouts = <<>>
    /\ runs = <<>>
    /\ ids = {}
    /\ request = <<>>
    /\ raised = <<>>

\* import_pdf was not called
IdleImport ==
    /\ post_num = 0
    /\ posts = <<>>
    /\ workouts_created = 0
    /\ workouts_failed = 0
    /\ response = <<>>

\* the auth service has no user and serves no request
IdleAuth ==
    /\ users = {}
    /\ reg = <<>>

-----------------------------------------------------------------------------
(* Texts *)

Chars(s) == [i \in 1..Len(s) |-> SubSeq(s, i, i)]

None == <<>>

NoneText == <<"<None>">>

UpperAlpha == Chars("ABCDEFGHIJKLMNOPQRSTUVWXYZ")

LowerAlpha == Chars("abcdefghijklmnopqrstuvwxyz")

Digits == Chars("0123456789")

InSeq(c, s) == \E i \in 1..Len(s) : s[i] = c

IndexIn(c, s) == CHOOSE i \in 1..Len(s) : s[i] = c

\* str.lower() and str.upper() on one character of the alphabet
ToLower ==
    "A" :> "a" @@ "B" :> "b" @@ "C" :> "c" @@ "D" :> "d" @@ "E" :> "e" @@ "F" :> "f" @@
    "G" :> "g" @@ "H" :> "h" @@ "I" :> "i" @@ "J" :> "j" @@ "K" :> "k" @@ "L" :> "l" @@
    "M" :> "m" @@ "N" :> "n" @@ "O" :> "o" @@ "P" :> "p" @@ "Q" :> "q" @@ "R" :> "r" @@
    "S" :> "s" @@ "T" :> "t" @@ "U" :> "u" @@ "V" :> "v" @@ "W" :> "w" @@ "X" :> "x" @@
    "Y" :> "y" @@ "Z" :> "z"

ToUpper ==
    "a" :> "A" @@ "b" :> "B" @@ "c" :> "C" @@ "d" :> "D" @@ "e" :> "E" @@ "f" :> "F" @@
    "g" :> "G" @@ "h" :> "H" @@ "i" :> "I" @@ "j" :> "J" @@ "k" :> "K" @@ "l" :> "L" @@
    "m" :> "M" @@ "n" :> "N" @@ "o" :> "O" @@ "p" :> "P" @@ "q" :> "Q" @@ "r" :> "R" @@
    "s" :> "S" @@ "t" :> "T" @@ "u" :> "U" @@ "v" :> "V" @@ "w" :> "W" @@ "x" :> "X" @@
    "y" :> "Y" @@ "z" :> "Z"

DigitValue ==
    "0" :> 0 @@ "1" :> 1 @@ "2" :> 2 @@ "3" :> 3 @@ "4" :> 4 @@ "5" :> 5 @@ "6" :> 6 @@
    "7" :> 7 @@ "8" :> 8 @@ "9" :> 9

IsDigit(c) == c \in DOMAIN DigitValue

DigitVal(c) == DigitValue[c]

IsSpace(c) == c \in {" ", "\n", "\t"}

IsWordChar(c) == c \in DOMAIN ToLower \/ c \in DOMAIN ToUpper \/ IsDigit(c) \/ c = "_"

LowerChar(c) == IF c \in DOMAIN ToLower THEN ToLower[c] ELSE c

UpperChar(c) == IF c \in DOMAIN ToUpper THEN ToUpper[c] ELSE c

lower(t) == [i \in 1..Len(t) |-> LowerChar(t[i])]

upper(t) == [i \in 1..Len(t) |-> UpperChar(t[i])]

From(t, i) == SubSeq(t, i, Len(t))

\* the length of the run of whitespace / of non-whitespace / of digits that starts at t[i]
RECURSIVE SpaceRun(_, _)
SpaceRun(t, i) == IF i <= Len(t) /\ IsSpace(t[i]) THEN 1 + SpaceRun(t, i + 1) ELSE 0

RECURSIVE WordRun(_, _)
WordRun(t, i) == IF i <= Len(t) /\ ~IsSpace(t[i]) THEN 1 + WordRun(t, i + 1) ELSE 0

RECURSIVE DigitRun(_, _)
DigitRun(t, i) == IF i <= Len(t) /\ IsDigit(t[i]) THEN 1 + DigitRun(t, i + 1) ELSE 0

lstrip(t) == From(t, 1 + SpaceRun(t, 1))

Reverse(t) == [i \in 1..Len(t) |-> t[Len(t) + 1 - i]]

strip(t) == Reverse(lstrip(Reverse(lstrip(t))))

RECURSIVE split(_)
split(t) ==
    IF t = <<>> THEN <<>>
    ELSE IF IsSpace(t[1]) THEN split(Tail(t))
    ELSE LET n == WordRun(t, 1)
         IN  <<SubSeq(t, 1, n)>> \o split(From(t, n + 1))

RECURSIVE join(_, _)
join(sep, ws) ==
    IF ws = <<>> THEN <<>>
    ELSE IF Len(ws) = 1 THEN ws[1]
    ELSE ws[1] \o sep \o join(sep, Tail(ws))

\* ' '.join(text.split())
Normalize(t) == join(<<" ">>, split(t))

StartsWith(t, p) == Len(t) >= Len(p) /\ SubSeq(t, 1, Len(p)) = p

MatchAt(t, i, p) == i + Len(p) - 1 <= Len(t) /\ SubSeq(t, i, i + Len(p) - 1) = p

\* Python's  p in t
Contains(t, p) == \E i \in 1..(Len(t) + 1) : MatchAt(t, i, p)

-----------------------------------------------------------------------------
(* Calendar dates, as datetime keeps them *)

FirstYear == 2023

LastYear == 2024

IsLeap(y) == y % 4 = 0 /\ (y % 100 # 0 \/ y % 400 = 0)

DaysInMonth(y, m) ==
    IF m = 2 THEN (IF IsLeap(y) THEN 29 ELSE 28)
    ELSE IF m \in {4, 6, 9, 11} THEN 30 ELSE 31

RECURSIVE DaysBeforeMonth(_, _)
DaysBeforeMonth(y, m) == IF m = 1 THEN 0 ELSE DaysBeforeMonth(y, m - 1) + DaysInMonth(y, m - 1)

DaysBeforeYear(y) ==
    LET p == y - 1 IN p * 365 + (p \div 4) - (p \div 100) + (p \div 400)

\* date.toordinal()
ToOrdinal(d) == DaysBeforeYear(d[1]) + DaysBeforeMonth(d[1], d[2]) + d[3]

\* date.fromordinal()
FromOrdinal(n) ==
    LET y == CHOOSE yy \in (FirstYear - 1)..(LastYear + 3) :
                 DaysBeforeYear(yy) < n /\ n <= DaysBeforeYear(yy + 1)
        r == n - DaysBeforeYear(y)
        m == CHOOSE mm \in 1..12 :
                 DaysBeforeMonth(y, mm) < r /\ r <= DaysBeforeMonth(y, mm) + DaysInMonth(y, mm)
    IN  <<y, m, r - DaysBeforeMonth(y, m)>>

\* date + timedelta(days=k)
AddDays(d, k) == FromOrdinal(ToOrdinal(d) + k)

\* (a - b).days
DaysBetween(a, b) == ToOrdinal(a) - ToOrdinal(b)

MonthAbbr == <<Chars("jan"), Chars("feb"), Chars("mar"), Chars("apr"), Chars("may"),
               Chars("jun"), Chars("jul"), Chars("aug"), Chars("sep"), Chars("oct"),
               Chars("nov"), Chars("dec")>>

\* the digits of a number of four digits, as str() writes it
DigitChar(n) == Digits[n + 1]

YearText(y) == <<DigitChar((y \div 1000) % 10), DigitChar((y \div 100) % 10),
                 DigitChar((y \div 10) % 10), DigitChar(y % 10)>>

\* %d of strptime: 3[0-1] | [1-2]\d | 0[1-9] | [1-9] | " "[1-9], tried in this order;
\* the length of the day field at the start of t, 0 when there is none
DayFieldLen(t) ==
    IF Len(t) >= 2 /\ t[1] = "3" /\ t[2] \in {"0", "1"} THEN 2
    ELSE IF Len(t) >= 2 /\ t[1] \in {"1", "2"} /\ IsDigit(t[2]) THEN 2
    ELSE IF Len(t) >= 2 /\ t[1] = "0" /\ IsDigit(t[2]) /\ t[2] # "0" THEN 2
    ELSE IF Len(t) >= 1 /\ IsDigit(t[1]) /\ t[1] # "0" THEN 1
    ELSE IF Len(t) >= 2 /\ t[1] = " " /\ IsDigit(t[2]) /\ t[2] # "0" THEN 2
    ELSE 0

RECURSIVE IntOf(_)
IntOf(t) == IF t = <<>> THEN 0 ELSE IntOf(SubSeq(t, 1, Len(t) - 1)) * 10 + DigitVal(t[Len(t)])

\* datetime.strptime(s, "%d-%b-%Y"): the date, or None where strptime raises ValueError
strptime(s) ==
    LET n == DayFieldLen(s)
        r == From(s, n + 1)
    IN  IF n = 0 THEN None
        ELSE IF ~(Len(r) = 9 /\ r[1] = "-" /\ r[5] = "-") THEN None
        ELSE LET mon == lower(SubSeq(r, 2, 4))
                 yt  == SubSeq(r, 6, 9)
             IN  IF ~(\E m \in 1..12 : MonthAbbr[m] = mon) THEN None
                 ELSE IF ~(\A i \in 1..4 : IsDigit(yt[i])) THEN None
                 ELSE LET m == CHOOSE mm \in 1..12 : MonthAbbr[mm] = mon
                          y == IntOf(yt)
                          d == IntOf(strip(SubSeq(s, 1, n)))
                      IN  IF y < 1 \/ d > DaysInMonth(y, m) THEN None
                          ELSE <<y, m, d>>

RollAfterDays == 180

\* parse_week_date rolling the year already at 180 days
parse_week_date_RollsAt180(week_str, today) ==
    LET current_year == today[1]
        parsed_date == strptime(week_str \o <<"-">> \o YearText(current_year))
    IN  IF parsed_date = None THEN None
        ELSE IF DaysBetween(today, parsed_date) >= RollAfterDays
             THEN strptime(week_str \o <<"-">> \o YearText(current_year + 1))
             ELSE parsed_date

\* parse_week_date without the roll to the following year
parse_week_date_NoRoll(week_str, today) ==
    strptime(week_str \o <<"-">> \o YearText(today[1]))

parse_week_date(week_str, today) ==
    LET current_year == today[1]
        parsed_date == strptime(week_str \o <<"-">> \o YearText(current_year))
    IN  IF parsed_date = None THEN None
        ELSE IF DaysBetween(today, parsed_date) > RollAfterDays
             THEN strptime(week_str \o <<"-">> \o YearText(current_year + 1))
             ELSE parsed_date

-----------------------------------------------------------------------------
(* Numbers: a float read from decimal digits is kept exactly, as <<int, frac>>: the  *)
(* digits before the point without leading zeros and the digits after it without    *)
(* trailing zeros (texts of fewer than 16 digits, which float() reads exactly)      *)

RECURSIVE ZeroRun(_, _)
ZeroRun(t, i) == IF i <= Len(t) /\ t[i] = "0" THEN 1 + ZeroRun(t, i + 1) ELSE 0

DropLeadingZeros(t) == From(t, 1 + ZeroRun(t, 1))

DropTrailingZeros(t) == Reverse(DropLeadingZeros(Reverse(t)))

\* float(s) for s matching \d+\.?\d*
Float(s) ==
    LET n == DigitRun(s, 1)
        frac == IF n < Len(s) THEN From(s, n + 2) ELSE <<>>
    IN  <<DropLeadingZeros(SubSeq(s, 1, n)), DropTrailingZeros(frac)>>

DistanceLoTenths == 5

DistanceHi == 25

\* DistanceLoTenths / 10 <= x
AtLeastLo(x) == x[1] # <<>> \/ (x[2] # <<>> /\ DigitVal(x[2][1]) >= DistanceLoTenths)

\* x <= DistanceHi
AtMostHi(x) ==
    /\ Len(x[1]) <= 2
    /\ \/ IntOf(x[1]) < DistanceHi
       \/ IntOf(x[1]) = DistanceHi /\ x[2] = <<>>

\* 0.5 < distance < 25
InRange_Exclusive(x) ==
    /\ AtLeastLo(x) /\ AtMostHi(x)
    /\ x # <<<<>>, <<"5">> >>
    /\ x # <<<<"2", "5">>, <<>> >>

\* 0.5 <= distance <= 25
InRange(x) == AtLeastLo(x) /\ AtMostHi(x)

-----------------------------------------------------------------------------
(* The regular expressions of parse_distance_from_text *)

\* the length of the longest match of \d+\.?\d* at t[i], 0 when t[i] is no digit
NumLen(t, i) ==
    LET a == DigitRun(t, i)
        dot == IF a > 0 /\ i + a <= Len(t) /\ t[i + a] = "." THEN 1 ELSE 0
    IN  IF a = 0 THEN 0 ELSE a + dot + DigitRun(t, i + a + dot)

\* p matches at t[i], ignoring case (p in lower case)
MatchAtCI(t, i, p) == i + Len(p) - 1 <= Len(t) /\ lower(SubSeq(t, i, i + Len(p) - 1)) = p

\* \b at the place before t[i], after a word character
BoundaryAfterWord(t, i) == i > Len(t) \/ ~IsWordChar(t[i])

Units == <<Chars("miles"), Chars("mile"), Chars("mi")>>

\* the first place where P holds, and the number that starts at place g of it: the
\* text of group 1 of re.search, None when nothing matches
FirstGroup(t, S, off) ==
    IF S = {} THEN None
    ELSE LET i == CHOOSE x \in S : \A y \in S : x <= y
             g == i + off[i]
         IN  <<SubSeq(t, g, g + NumLen(t, g) - 1)>>

\* r'to\s+(\d+\.?\d*)\s*(?:miles?|mi)', re.IGNORECASE
ToMilesAt(t, i) ==
    /\ MatchAtCI(t, i, Chars("to"))
    /\ SpaceRun(t, i + 2) >= 1
    /\ LET g == i + 2 + SpaceRun(t, i + 2)
           n == NumLen(t, g)
       IN  /\ n >= 1
           /\ MatchAtCI(t, g + n + SpaceRun(t, g + n), Chars("mi"))

to_miles_match(t) ==
    FirstGroup(t, {i \in 1..Len(t) : ToMilesAt(t, i)},
               [i \in 1..Len(t) |-> 2 + SpaceRun(t, i + 2)])

\* r'(\d+\.?\d*)\s*(?:miles?|mi)?\s+total', re.IGNORECASE
TotalMilesAt(t, i) ==
    LET n == NumLen(t, i)
        j == i + n
    IN  /\ n >= 1
        /\ \E a \in 0..SpaceRun(t, j) :
             \E u \in {Units[x] : x \in 1..Len(Units)} \cup {<<>>} :
                /\ MatchAtCI(t, j + a, u)
                /\ LET k == j + a + Len(u)
                       b == SpaceRun(t, k)
                   IN  b >= 1 /\ MatchAtCI(t, k + b, Chars("total"))

total_miles_match(t) ==
    FirstGroup(t, {i \in 1..Len(t) : TotalMilesAt(t, i)}, [i \in 1..Len(t) |-> 0])

\* r'(\d+\.?\d*)\s*(?:miles?|mi)\b', re.IGNORECASE
MilesAt(t, i) ==
    LET n == NumLen(t, i)
        k == i + n + SpaceRun(t, i + n)
    IN  /\ n >= 1
        /\ \E x \in 1..Len(Units) :
              MatchAtCI(t, k, Units[x]) /\ BoundaryAfterWord(t, k + Len(Units[x]))

miles_match(t) ==
    FirstGroup(t, {i \in 1..Len(t) : MilesAt(t, i)}, [i \in 1..Len(t) |-> 0])

\* re.match(r'^(\d+\.?\d*)\s+', text)
start_match(t) ==
    LET n == NumLen(t, 1)
    IN  IF n >= 1 /\ SpaceRun(t, 1 + n) >= 1 THEN <<SubSeq(t, 1, n)>> ELSE None

\* re.search(r'(\d+\.?\d*)', text)
first_number_match(t) ==
    FirstGroup(t, {i \in 1..Len(t) : IsDigit(t[i])}, [i \in 1..Len(t) |-> 0])

SkipWords == {Chars("XT"), Chars("OFF"), Chars("PARTAY")}

\* one rule of the cascade: the rule's number when it matched and is in range
Accepted(m) == m # None /\ InRange(Float(m[1]))

\* parse_distance_from_text giving up at the first rule that matched
parse_distance_FirstMatchOnly(text) ==
    IF text = NoneText \/ text = <<>> \/ upper(strip(text)) \in SkipWords THEN None
    ELSE LET t == Normalize(text)
             m == IF to_miles_match(t) # None THEN to_miles_match(t)
                  ELSE IF total_miles_match(t) # None THEN total_miles_match(t)
                  ELSE IF miles_match(t) # None THEN miles_match(t)
                  ELSE IF start_match(t) # None THEN start_match(t)
                  ELSE first_number_match(t)
         IN  IF Accepted(m) THEN Float(m[1]) ELSE None

\* parse_distance_from_text without the sanity check of the last resort
parse_distance_NoSanityCheck(text) ==
    IF text = NoneText \/ text = <<>> \/ upper(strip(text)) \in SkipWords THEN None
    ELSE LET t == Normalize(text)
         IN  IF Accepted(to_miles_match(t)) THEN Float(to_miles_match(t)[1])
             ELSE IF Accepted(total_miles_match(t)) THEN Float(total_miles_match(t)[1])
             ELSE IF Accepted(miles_match(t)) THEN Float(miles_match(t)[1])
             ELSE IF Accepted(start_match(t)) THEN Float(start_match(t)[1])
             ELSE IF first_number_match(t) # None THEN Float(first_number_match(t)[1])
             ELSE None

parse_distance_from_text(text) ==
    IF text = NoneText \/ text = <<>> \/ upper(strip(text)) \in SkipWords THEN None
    ELSE LET t == Normalize(text)
         IN  IF Accepted(to_miles_match(t)) THEN Float(to_miles_match(t)[1])
             ELSE IF Accepted(total_miles_match(t)) THEN Float(total_miles_match(t)[1])
             ELSE IF Accepted(miles_match(t)) THEN Float(miles_match(t)[1])
             ELSE IF Accepted(start_match(t)) THEN Float(start_match(t)[1])
             ELSE IF Accepted(first_number_match(t)) THEN Float(first_number_match(t)[1])
             ELSE None

-----------------------------------------------------------------------------
(* classify_workout_type *)

SpeedKeywords ==
    <<Chars("interval"), Chars(" x "), Chars("@"), Chars("pace"), Chars("min on"),
      Chars("min off"), Chars("uphill"), Chars("5k pace"), Chars("10k pace"),
      Chars("400"), Chars("800"), Chars("1200"), Chars("warm-up")>>

WorkoutTypes == {"EASY", "TEMPO", "LONG", "SPEED", "RECOVERY", "CROSS_TRAINING", "REST"}

\* classify_workout_type testing "easy" before "tempo"
classify_EasyBeforeTempo(text) ==
    IF text = NoneText \/ text = <<>> THEN "REST"
    ELSE LET text_lower == lower(Normalize(text))
         IN  IF Contains(text_lower, Chars("xt")) \/ Contains(text_lower, Chars("cross"))
                 THEN "CROSS_TRAINING"
             ELSE IF Contains(text_lower, Chars("off")) \/ strip(text_lower) = <<>>
                 THEN "REST"
             ELSE IF Contains(text_lower, Chars("easy")) THEN "EASY"
             ELSE IF Contains(text_lower, Chars("tempo")) \/ Contains(text_lower, Chars("ghmp"))
                 THEN "TEMPO"
             ELSE IF \E x \in 1..Len(SpeedKeywords) : Contains(text_lower, SpeedKeywords[x])
                 THEN "SPEED"
             ELSE IF Contains(text_lower, Chars("long")) THEN "LONG"
             ELSE IF Contains(text_lower, Chars("recovery")) THEN "RECOVERY"
             ELSE IF Contains(text_lower, Chars("stride")) THEN "EASY"
             ELSE IF Contains(text_lower, Chars("race")) \/ Contains(text_lower, Chars("5 mc"))
                 THEN "SPEED"
             ELSE "EASY"

\* classify_workout_type testing the SPEED keywords before "off"
classify_SpeedBeforeOff(text) ==
    IF text = NoneText \/ text = <<>> THEN "REST"
    ELSE LET text_lower == lower(Normalize(text))
         IN  IF Contains(text_lower, Chars("xt")) \/ Contains(text_lower, Chars("cross"))
                 THEN "CROSS_TRAINING"
             ELSE IF \E x \in 1..Len(SpeedKeywords) : Contains(text_lower, SpeedKeywords[x])
                 THEN "SPEED"
             ELSE IF Contains(text_lower, Chars("off")) \/ strip(text_lower) = <<>>
                 THEN "REST"
             ELSE IF Contains(text_lower, Chars("tempo")) \/ Contains(text_lower, Chars("ghmp"))
                 THEN "TEMPO"
             ELSE IF Contains(text_lower, Chars("long")) THEN "LONG"
             ELSE IF Contains(text_lower, Chars("recovery")) THEN "RECOVERY"
             ELSE IF Contains(text_lower, Chars("easy")) THEN "EASY"
             ELSE IF Contains(text_lower, Chars("stride")) THEN "EASY"
             ELSE IF Contains(text_lower, Chars("race")) \/ Contains(text_lower, Chars("5 mc"))
                 THEN "SPEED"
             ELSE "EASY"

classify_workout_type(text) ==
    IF text = NoneText \/ text = <<>> THEN "REST"
    ELSE LET text_lower == lower(Normalize(text))
         IN  IF Contains(text_lower, Chars("xt")) \/ Contains(text_lower, Chars("cross"))
                 THEN "CROSS_TRAINING"
             ELSE IF Contains(text_lower, Chars("off")) \/ strip(text_lower) = <<>>
                 THEN "REST"
             ELSE IF Contains(text_lower, Chars("tempo")) \/ Contains(text_lower, Chars("ghmp"))
                 THEN "TEMPO"
             ELSE IF \E x \in 1..Len(SpeedKeywords) : Contains(text_lower, SpeedKeywords[x])
                 THEN "SPEED"
             ELSE IF Contains(text_lower, Chars("long")) THEN "LONG"
             ELSE IF Contains(text_lower, Chars("recovery")) THEN "RECOVERY"
             ELSE IF Contains(text_lower, Chars("easy")) THEN "EASY"
             ELSE IF Contains(text_lower, Chars("stride")) THEN "EASY"
             ELSE IF Contains(text_lower, Chars("race")) \/ Contains(text_lower, Chars("5 mc"))
                 THEN "SPEED"
             ELSE "EASY"

-----------------------------------------------------------------------------
(* parse_workout_cell *)

TwoDigits(n) == <<DigitChar((n \div 10) % 10), DigitChar(n % 10)>>

\* date.isoformat()
isoformat(d) == YearText(d[1]) \o <<"-">> \o TwoDigits(d[2]) \o <<"-">> \o TwoDigits(d[3])

NameMax == 100

NameKeep == 97

\* WorkoutName keeping 100 characters before the dots
WorkoutName_KeepsMax(cell_text) ==
    IF Len(cell_text) <= NameMax THEN SubSeq(cell_text, 1, Len(cell_text))
    ELSE SubSeq(cell_text, 1, NameMax) \o Chars("...")

WorkoutName(cell_text) ==
    IF Len(cell_text) <= NameMax THEN SubSeq(cell_text, 1, Len(cell_text))
    ELSE SubSeq(cell_text, 1, NameKeep) \o Chars("...")

\* parse_workout_cell comparing with "XT" only, not with "XT +..."
parse_workout_cell_NoXtPlus(raw, scheduled_date) ==
    IF raw = NoneText \/ raw = <<>> \/ strip(raw) = <<>> THEN None
    ELSE LET cell_text == Normalize(raw)
         IN  IF upper(cell_text) \in {Chars("OFF"), Chars("PARTAY")} THEN None
             ELSE IF upper(cell_text) = Chars("XT") THEN None
             ELSE LET distance == parse_distance_from_text(cell_text)
                  IN  IF distance = None THEN None
                      ELSE [name |-> WorkoutName(cell_text),
                            workout_type |-> classify_workout_type(cell_text),
                            planned_distance |-> distance,
                            scheduled_date |-> isoformat(scheduled_date)]

\* parse_workout_cell without the test of the distance
parse_workout_cell_KeepsNoDistance(raw, scheduled_date) ==
    IF raw = NoneText \/ raw = <<>> \/ strip(raw) = <<>> THEN None
    ELSE LET cell_text == Normalize(raw)
         IN  IF upper(cell_text) \in {Chars("OFF"), Chars("PARTAY")} THEN None
             ELSE IF upper(cell_text) = Chars("XT") \/ StartsWith(upper(cell_text), Chars("XT +"))
                 THEN None
             ELSE [name |-> WorkoutName(cell_text),
                   workout_type |-> classify_workout_type(cell_text),
                   planned_distance |-> parse_distance_from_text(cell_text),
                   scheduled_date |-> isoformat(scheduled_date)]

parse_workout_cell(raw, scheduled_date) ==
    IF raw = NoneText \/ raw = <<>> \/ strip(raw) = <<>> THEN None
    ELSE LET cell_text == Normalize(raw)
         IN  IF upper(cell_text) \in {Chars("OFF"), Chars("PARTAY")} THEN None
             ELSE IF upper(cell_text) = Chars("XT") \/ StartsWith(upper(cell_text), Chars("XT +"))
                 THEN None
             ELSE LET distance == parse_distance_from_text(cell_text)
                  IN  IF distance = None THEN None
                      ELSE [name |-> WorkoutName(cell_text),
                            workout_type |-> classify_workout_type(cell_text),
                            planned_distance |-> distance,
                            scheduled_date |-> isoformat(scheduled_date)]

-----------------------------------------------------------------------------
(* The decoded document: pages of tables of rows of Optional texts *)

NoneRow == << <<"<None row>">> >>

\* a page whose extract_tables() raises
RaisingPage == << << << <<"<extract_tables raises>">> >> >> >>

\* bytes that pdfplumber.open() rejects
BadBytes == << << << << <<"<not a PDF>">> >> >> >> >>

\* DAY_COLUMNS with the week beginning on Sunday
DAY_COLUMNS_SundayFirst ==
    <<Chars("sunday"), Chars("monday"), Chars("tuesday"), Chars("wednesday"),
      Chars("thursday"), Chars("friday"), Chars("saturday")>>

DAY_COLUMNS == <<Chars("monday"), Chars("tuesday"), Chars("wednesday"), Chars("thursday"),
                 Chars("friday"), Chars("saturday"), Chars("sunday")>>

\* day_col_indices[col_lower] = idx on a dict that keeps insertion order
DictSet(d, key, idx) ==
    IF \E i \in 1..Len(d) : d[i][1] = key
    THEN [i \in 1..Len(d) |-> IF d[i][1] = key THEN <<key, idx>> ELSE d[i]]
    ELSE Append(d, <<key, idx>>)

\* lines 258-263: the loop over enumerate(header), columns n..len(header)
RECURSIVE FindDayColumns(_, _, _)
FindDayColumns(header, n, d) ==
    IF n > Len(header) THEN d
    ELSE LET col_name == header[n]
             col_lower == strip(lower(col_name))
         IN  IF col_name # NoneText /\ col_name # <<>> /\ InSeq(col_lower, DAY_COLUMNS)
             THEN FindDayColumns(header, n + 1, DictSet(d, col_lower, n - 1))
             ELSE FindDayColumns(header, n + 1, d)

\* DayCells taking the day offset from the position of the column
RECURSIVE DayCells_OffsetByPosition(_, _, _, _)
DayCells_OffsetByPosition(row, week_start, d, n) ==
    IF n > Len(d) THEN <<>>
    ELSE LET day_index == d[n][2]
             rest == DayCells_OffsetByPosition(row, week_start, d, n + 1)
         IN  IF day_index >= Len(row) THEN rest
             ELSE LET cell_text == row[day_index + 1]
                  IN  IF cell_text = NoneText \/ cell_text = <<>> \/ strip(cell_text) = <<>>
                      THEN rest
                      ELSE LET scheduled_date == AddDays(week_start, day_index - 1)
                               workout == parse_workout_cell(cell_text, scheduled_date)
                           IN  IF workout # None THEN <<workout>> \o rest ELSE rest

\* lines 288-305: the loop over day_col_indices.items(), entries n..len
RECURSIVE DayCells(_, _, _, _)
DayCells(row, week_start, d, n) ==
    IF n > Len(d) THEN <<>>
    ELSE LET day_name == d[n][1]
             day_index == d[n][2]
             rest == DayCells(row, week_start, d, n + 1)
         IN  IF day_index >= Len(row) THEN rest
             ELSE LET cell_text == row[day_index + 1]
                  IN  IF cell_text = NoneText \/ cell_text = <<>> \/ strip(cell_text) = <<>>
                      THEN rest
                      ELSE LET day_offset == IndexIn(day_name, DAY_COLUMNS) - 1
                               scheduled_date == AddDays(week_start, day_offset)
                               workout == parse_workout_cell(cell_text, scheduled_date)
                           IN  IF workout # None THEN <<workout>> \o rest ELSE rest

\* RowWorkouts resolving the week in the year of plan_start_date
RowWorkouts_YearOfPlanStart(row, d, today) ==
    IF row = NoneRow \/ Len(row) = 0 THEN <<>>
    ELSE LET week_cell == row[1]
         IN  IF week_cell = NoneText \/ week_cell = <<>> \/ strip(week_cell) = <<>> THEN <<>>
             ELSE LET week_start == parse_week_date(strip(week_cell), <<arg[1], today[2], today[3]>>)
                  IN  IF week_start = None THEN <<>>
                      ELSE DayCells(row, week_start, d, 1)

\* lines 269-305: the records one data row appends
RowWorkouts(row, d, today) ==
    IF row = NoneRow \/ Len(row) = 0 THEN <<>>
    ELSE LET week_cell == row[1]
         IN  IF week_cell = NoneText \/ week_cell = <<>> \/ strip(week_cell) = <<>> THEN <<>>
             ELSE LET week_start == parse_week_date(strip(week_cell), today)
                  IN  IF week_start = None THEN <<>>
                      ELSE DayCells(row, week_start, d, 1)

\* the except clause returning what was accumulated
OnException_ReturnsPartial(acc) == acc

\* line 317: what the except clause returns
OnException(acc) == <<>>

-----------------------------------------------------------------------------
(* extract_workouts_from_pdf, one page, table or row at a step *)

Open ==
    /\ pc = "start"
    /\ IF doc = BadBytes
       THEN pc' = "except" /\ exc' = <<"PDFSyntaxError">> /\ UNCHANGED page_num
       ELSE pc' = "pages" /\ page_num' = 1 /\ UNCHANGED exc
    /\ UNCHANGED <<callee, arg, ret, now, doc, table_num, row_num, day_col_indices,
                   workouts, result>>
    /\ UNCHANGED <<dbVars, importVars, authVars>>

\* NextPage ending the walk at a page without tables (break for continue)
NextPage_StopsAtEmptyPage ==
    /\ pc = "pages"
    /\ IF page_num > Len(doc)
       THEN pc' = "return" /\ UNCHANGED <<page_num, table_num, exc>>
       ELSE IF doc[page_num] = RaisingPage
       THEN pc' = "except" /\ exc' = <<"PDFException">> /\ UNCHANGED <<page_num, table_num>>
       ELSE IF doc[page_num] = <<>>
       THEN pc' = "return" /\ UNCHANGED <<page_num, table_num, exc>>
       ELSE pc' = "tables" /\ table_num' = 1 /\ UNCHANGED <<page_num, exc>>
    /\ UNCHANGED <<callee, arg, ret, now, doc, row_num, day_col_indices, workouts, result>>
    /\ UNCHANGED <<dbVars, importVars, authVars>>

NextPage ==
    /\ pc = "pages"
    /\ IF page_num > Len(doc)
       THEN pc' = "return" /\ UNCHANGED <<page_num, table_num, exc>>
       ELSE IF doc[page_num] = RaisingPage
       THEN pc' = "except" /\ exc' = <<"PDFException">> /\ UNCHANGED <<page_num, table_num>>
       ELSE IF doc[page_num] = <<>>
       THEN pc' = "pages" /\ page_num' = page_num + 1 /\ UNCHANGED <<table_num, exc>>
       ELSE pc' = "tables" /\ table_num' = 1 /\ UNCHANGED <<page_num, exc>>
    /\ UNCHANGED <<callee, arg, ret, now, doc, row_num, day_col_indices, workouts, result>>
    /\ UNCHANGED <<dbVars, importVars, authVars>>

NextTable ==
    /\ pc = "tables"
    /\ IF table_num > Len(doc[page_num])
       THEN /\ pc' = "pages"
            /\ page_num' = page_num + 1
            /\ UNCHANGED <<table_num, row_num, day_col_indices, exc>>
       ELSE LET table == doc[page_num][table_num]
            IN  IF Len(table) < 2
                THEN /\ pc' = "tables"
                     /\ table_num' = table_num + 1
                     /\ UNCHANGED <<page_num, row_num, day_col_indices, exc>>
                ELSE IF table[1] = NoneRow
                THEN /\ pc' = "except"
                     /\ exc' = <<"TypeError">>
                     /\ UNCHANGED <<page_num, table_num, row_num, day_col_indices>>
                ELSE /\ pc' = "rows"
                     /\ day_col_indices' = FindDayColumns(table[1], 1, <<>>)
                     /\ row_num' = 1
                     /\ UNCHANGED <<page_num, table_num, exc>>
    /\ UNCHANGED <<callee, arg, ret, now, doc, workouts, result>>
    /\ UNCHANGED <<dbVars, importVars, authVars>>

\* NextRow leaving the table at a row without a week date (break for continue)
NextRow_BreakOnBadWeek ==
    /\ pc = "rows"
    /\ LET table == doc[page_num][table_num]
       IN  IF row_num > Len(table) - 1
           THEN /\ pc' = "tables"
                /\ table_num' = table_num + 1
                /\ UNCHANGED <<row_num, workouts>>
           ELSE LET row == table[row_num + 1]
                IN  IF /\ row # NoneRow
                       /\ Len(row) > 0
                       /\ row[1] # NoneText
                       /\ parse_week_date(strip(row[1]), now) = None
                    THEN /\ pc' = "tables"
                         /\ table_num' = table_num + 1
                         /\ UNCHANGED <<row_num, workouts>>
                    ELSE /\ pc' = "rows"
                         /\ workouts' = workouts \o RowWorkouts(row, day_col_indices, now)
                         /\ row_num' = row_num + 1
                         /\ UNCHANGED table_num
    /\ UNCHANGED <<callee, arg, ret, now, doc, page_num, day_col_indices, exc, result>>
    /\ UNCHANGED <<dbVars, importVars, authVars>>

NextRow ==
    /\ pc = "rows"
    /\ LET table == doc[page_num][table_num]
       IN  IF row_num > Len(table) - 1
           THEN /\ pc' = "tables"
                /\ table_num' = table_num + 1
                /\ UNCHANGED <<row_num, workouts>>
           ELSE /\ pc' = "rows"
                /\ workouts' = workouts \o RowWorkouts(table[row_num + 1], day_col_indices, now)
                /\ row_num' = row_num + 1
                /\ UNCHANGED table_num
    /\ UNCHANGED <<callee, arg, ret, now, doc, page_num, day_col_indices, exc, result>>
    /\ UNCHANGED <<dbVars, importVars, authVars>>

Return ==
    /\ pc = "return"
    /\ result' = workouts
    /\ pc' = "done"
    /\ UNCHANGED <<callee, arg, ret, now, doc, page_num, table_num, row_num,
                   day_col_indices, workouts, exc>>
    /\ UNCHANGED <<dbVars, importVars, authVars>>

\* except ValueError
Handles_ValueErrorOnly(e) == e = <<"ValueError">>

\* line 315: except Exception
Handles(e) == e \in {<<"PDFSyntaxError">>, <<"PDFException">>, <<"TypeError">>, <<"ValueError">>}

Catch ==
    /\ pc = "except"
    /\ IF Handles(exc)
       THEN result' = OnException(workouts) /\ pc' = "done"
       ELSE pc' = "raised" /\ UNCHANGED result
    /\ UNCHANGED <<callee, arg, ret, now, doc, page_num, table_num, row_num,
                   day_col_indices, workouts, exc>>
    /\ UNCHANGED <<dbVars, importVars, authVars>>

Next == Open \/ NextPage \/ NextTable \/ NextRow \/ Return \/ Catch

Cell(s) == IF s = "<None>" THEN NoneText ELSE Chars(s)

Row(r) == [i \in 1..Len(r) |-> Cell(r[i])]

TableA ==
    <<Row(<<"Week", "Monday", "Tuesday", "Wednesday">>),
      Row(<<"21-Jul", "3.5 easy", "XT", "5 tempo run">>),
      Row(<<"banana", "4 easy", "6 long", "7">>),
      Row(<<"5-Jan", "OFF", "40 min bike", "10 long\nrun">>)>>

TableB ==
    <<Row(<<"WEEK", " Sunday ", "Notes", "MONDAY", "monday">>),
      NoneRow,
      Row(<<" ", "5", "x", "6", "7">>),
      Row(<<"29-Feb", "8 miles", "note 3", "4", "2 recovery">>),
      Row(<<"28-Jul", "6 miles", "<None>">>),
      Row(<<"4-Aug", "<None>", "9", "", "XT + 3">>)>>

TableC ==
    <<NoneRow,
      Row(<<"21-Jul", "3 easy">>)>>

TableD ==
    <<Row(<<"Week", "Monday", "Tuesday">>)>>

TableE ==
    <<Row(<<"Week", "Mon", "<None>", "Tue.">>),
      Row(<<"21-Jul", "5", "6", "7">>)>>

TablePool == {TableA, TableB, TableC, TableD, TableE}

MaxTables == 2

MaxPages == 2

\* all sequences of at most n elements of S
RECURSIVE SeqsUpTo(_, _)
SeqsUpTo(S, n) ==
    IF n = 0 THEN {<<>>}
    ELSE LET shorter == SeqsUpTo(S, n - 1)
         IN  shorter \cup {<<x>> \o t : x \in S, t \in shorter}

Pages == SeqsUpTo(TablePool, MaxTables) \cup {RaisingPage}

Docs == SeqsUpTo(Pages, MaxPages) \cup {BadBytes}

WalkNows == {<<2023, 12, 20>>, <<2024, 8, 15>>}

PlanStartDates == {<<2024, 7, 21>>}

Init ==
    /\ pc = "start"
    /\ callee = "extract_workouts_from_pdf"
    /\ doc \in Docs
    /\ arg \in PlanStartDates
    /\ now \in WalkNows
    /\ ret = None
    /\ page_num = 0
    /\ table_num = 0
    /\ row_num = 0
    /\ day_col_indices = <<>>
    /\ workouts = <<>>
    /\ exc = None
    /\ result = <<>>
    /\ IdleDb
    /\ IdleImport
    /\ IdleAuth

Spec == Init /\ [][Next]_vars

-----------------------------------------------------------------------------
(* Calls of the four functions of the parser on inputs drawn from bounded sets *)

\* all sequences of at most n elements of S, concatenated
RECURSIVE Concats(_, _)
Concats(S, n) ==
    IF n = 0 THEN {<<>>}
    ELSE LET shorter == Concats(S, n - 1)
         IN  shorter \cup {f \o t : f \in S, t \in shorter}

DayText(d) == IF d < 10 THEN <<DigitChar(d)>> ELSE TwoDigits(d)

Capitalized(t) == <<UpperChar(t[1])>> \o Tail(t)

\* "21-Jul"
TokenOf(d, m) == DayText(d) \o <<"-">> \o Capitalized(MonthAbbr[m])

\* every day of the calendar, 29 February included
CalendarDays == {<<d, m>> \in (1..31) \X (1..12) : d <= IF m = 2 THEN 29 ELSE DaysInMonth(1, m)}

OtherTokens ==
    {Chars("banana"), Chars("21-Jul-2024"), Chars("Jul-21"), Chars("21-July"), Chars("21-JUL"),
     Chars("07-jan"), Chars("0-Jan"), Chars("32-Jan"), Chars("31-Apr"), Chars("30-Feb"),
     Chars("21 Jul"), Chars("5-Jan-"), Chars("-Jan"), Chars("Week 1")}

Tokens == {TokenOf(c[1], c[2]) : c \in CalendarDays} \cup OtherTokens

NowDays == {1, 15, 28, 29, 31}

Nows == {<<y, m, d>> \in (FirstYear..LastYear) \X (1..12) \X NowDays : d <= DaysInMonth(y, m)}

IdleWalk ==
    /\ doc = <<>>
    /\ page_num = 0
    /\ table_num = 0
    /\ row_num = 0
    /\ day_col_indices = <<>>
    /\ workouts = <<>>
    /\ exc = None
    /\ result = <<>>

DateInit ==
    /\ pc = "call"
    /\ callee = "parse_week_date"
    /\ arg \in Tokens
    /\ now \in Nows
    /\ ret = None
    /\ IdleWalk
    /\ IdleDb
    /\ IdleImport
    /\ IdleAuth

CallParseWeekDate ==
    /\ pc = "call"
    /\ callee = "parse_week_date"
    /\ ret' = parse_week_date(arg, now)
    /\ pc' = "returned"
    /\ UNCHANGED <<callee, arg, now>>
    /\ UNCHANGED walkVars
    /\ UNCHANGED <<dbVars, importVars, authVars>>

DateNext == CallParseWeekDate

DateSpec == DateInit /\ [][DateNext]_vars

MaxDistFrags == 4

DistFrags ==
    {Chars("5"), Chars("5 "), Chars("30"), Chars("0.4"), Chars(" "), Chars("to "),
     Chars("mi"), Chars("miles"), Chars(" total"), Chars("n")}

DistTexts == Concats(DistFrags, MaxDistFrags)

AnyDay == <<2024, 7, 21>>

DistInit ==
    /\ pc = "call"
    /\ callee = "parse_distance_from_text"
    /\ arg \in DistTexts
    /\ now = AnyDay
    /\ ret = None
    /\ IdleWalk
    /\ IdleDb
    /\ IdleImport
    /\ IdleAuth

CallParseDistance ==
    /\ pc = "call"
    /\ callee = "parse_distance_from_text"
    /\ ret' = parse_distance_from_text(arg)
    /\ pc' = "returned"
    /\ UNCHANGED <<callee, arg, now>>
    /\ UNCHANGED walkVars
    /\ UNCHANGED <<dbVars, importVars, authVars>>

DistNext == CallParseDistance

DistSpec == DistInit /\ [][DistNext]_vars

MaxTypeFrags == 2

TypeFrags ==
    {Chars("xt"), Chars("cross"), Chars("off"), Chars("OFF"), Chars("tempo"), Chars("Tempo"),
     Chars("ghmp"), Chars("long"), Chars("recovery"), Chars("easy"), Chars("stride"),
     Chars("race"), Chars("5 mc"), Chars("run"), Chars(" "), Chars("x "), Chars("5")}
    \cup {SpeedKeywords[x] : x \in 1..Len(SpeedKeywords)}

TypeTexts == Concats(TypeFrags, MaxTypeFrags)

TypeInit ==
    /\ pc = "call"
    /\ callee = "classify_workout_type"
    /\ arg \in TypeTexts
    /\ now = AnyDay
    /\ ret = None
    /\ IdleWalk
    /\ IdleDb
    /\ IdleImport
    /\ IdleAuth

CallClassify ==
    /\ pc = "call"
    /\ callee = "classify_workout_type"
    /\ ret' = <<classify_workout_type(arg)>>
    /\ pc' = "returned"
    /\ UNCHANGED <<callee, arg, now>>
    /\ UNCHANGED walkVars
    /\ UNCHANGED <<dbVars, importVars, authVars>>

TypeNext == CallClassify

TypeSpec == TypeInit /\ [][TypeNext]_vars

MaxCellFrags == 4

CellFrags ==
    {Chars("XT"), Chars("Xt"), Chars("OFF"), Chars("PARTAY"), Chars("+"), Chars(" "),
     Chars("\n"), Chars("5"), Chars("30"), Chars("tempo")}

CellTexts == Concats(CellFrags, MaxCellFrags) \cup {NoneText}

CellDates == {<<2024, 7, 21>>, <<2024, 12, 31>>}

CellInit ==
    /\ pc = "call"
    /\ callee = "parse_workout_cell"
    /\ arg \in CellTexts \X CellDates
    /\ now = AnyDay
    /\ ret = None
    /\ IdleWalk
    /\ IdleDb
    /\ IdleImport
    /\ IdleAuth

CallParseWorkoutCell ==
    /\ pc = "call"
    /\ callee = "parse_workout_cell"
    /\ ret' = parse_workout_cell(arg[1], arg[2])
    /\ pc' = "returned"
    /\ UNCHANGED <<callee, arg, now>>
    /\ UNCHANGED walkVars
    /\ UNCHANGED <<dbVars, importVars, authVars>>

CellNext == CallParseWorkoutCell

CellSpec == CellInit /\ [][CellNext]_vars

\* parse_workout_cell on cells of about NameMax characters
NameSlack == 4

\* n characters of filling: words of six letters, one space between them
Fill(n) == [i \in 1..n |-> IF i % 7 = 0 THEN " " ELSE "a"]

NameHeads ==
    {Chars("5 easy "), Chars("5  easy "), Chars("5 easy\n"), Chars(" 5 easy "), Chars("rest day ")}

\* cells of NameMax - NameSlack .. NameMax + NameSlack characters
NameCells ==
    {h \o Fill(n - Len(h)) : h \in NameHeads, n \in (NameMax - NameSlack)..(NameMax + NameSlack)}

NameInit ==
    /\ pc = "call"
    /\ callee = "parse_workout_cell"
    /\ arg \in NameCells \X CellDates
    /\ now = AnyDay
    /\ ret = None
    /\ IdleWalk
    /\ IdleDb
    /\ IdleImport
    /\ IdleAuth

NameSpec == NameInit /\ [][CellNext]_vars

\* parse_workout_cell on cells with one number at or next to an end of the range
BoundaryNumbers ==
    {Chars("0.5"), Chars("0.50"), Chars("25"), Chars("25.0"), Chars("25."), Chars("0.49"),
     Chars("25.01"), Chars("0.51"), Chars("24.99"), Chars("0.4"), Chars("26")}

BoundaryBefore == {<<>>, Chars("run "), Chars("to "), Chars("XT + ")}

BoundaryAfter ==
    {<<>>, Chars(" easy"), Chars(" miles"), Chars("mi"), Chars(" total"), Chars("\nmiles total")}

BoundaryCells ==
    {b \o n \o a : b \in BoundaryBefore, n \in BoundaryNumbers, a \in BoundaryAfter}

BoundaryInit ==
    /\ pc = "call"
    /\ callee = "parse_workout_cell"
    /\ arg \in BoundaryCells \X CellDates
    /\ now = AnyDay
    /\ ret = None
    /\ IdleWalk
    /\ IdleDb
    /\ IdleImport
    /\ IdleAuth

BoundarySpec == BoundaryInit /\ [][CellNext]_vars

\* classify_workout_type on texts that hold "tempo" and "easy" among other words
MaxTempoFrags == 3

TempoFrags ==
    {Chars("tempo"), Chars("Tempo"), Chars("easy"), Chars("EASY"), Chars(" "), Chars("\n"),
     Chars("xt"), Chars("cross"), Chars("off"), Chars("long"), Chars("ne")}

TempoTexts == Concats(TempoFrags, MaxTempoFrags)

TempoInit ==
    /\ pc = "call"
    /\ callee = "classify_workout_type"
    /\ arg \in TempoTexts
    /\ now = AnyDay
    /\ ret = None
    /\ IdleWalk
    /\ IdleDb
    /\ IdleImport
    /\ IdleAuth

TempoSpec == TempoInit /\ [][TypeNext]_vars

\* parse_workout_cell on cells that hold "off" among the words of the other rules
MaxOffFrags == 3

OffFrags ==
    {Chars("5 x 2 min on 1 "), Chars("min off"), Chars("OFF"), Chars("Off"), Chars("3 "),
     Chars("xt"), Chars("Cross"), Chars("tempo"), Chars(" x "), Chars("\n"), Chars("of")}

OffTexts == Concats(OffFrags, MaxOffFrags)

OffInit ==
    /\ pc = "call"
    /\ callee = "parse_workout_cell"
    /\ arg \in OffTexts \X {AnyDay}
    /\ now = AnyDay
    /\ ret = None
    /\ IdleWalk
    /\ IdleDb
    /\ IdleImport
    /\ IdleAuth

OffSpec == OffInit /\ [][CellNext]_vars

\* extract_workouts_from_pdf on the document of one page with one table of one week
ScenarioTable ==
    <<Row(<<"Week", "Monday", "Tuesday", "Wednesday", "Thursday", "Friday", "Saturday",
            "Sunday">>),
      Row(<<"21-Jul", "3.5 easy", "XT", "5 tempo run", "OFF", "4 easy + strides", "",
            "10 long run">>)>>

ScenarioInit ==
    /\ pc = "start"
    /\ callee = "extract_workouts_from_pdf"
    /\ doc = <<<<ScenarioTable>>>>
    /\ arg \in PlanStartDates
    /\ now \in Nows
    /\ ret = None
    /\ page_num = 0
    /\ table_num = 0
    /\ row_num = 0
    /\ day_col_indices = <<>>
    /\ workouts = <<>>
    /\ exc = None
    /\ result = <<>>
    /\ IdleDb
    /\ IdleImport
    /\ IdleAuth

\* the steps of the walk; the document raises no exception
ScenarioNext == Open \/ NextPage \/ NextTable \/ NextRow \/ Return

ScenarioSpec == ScenarioInit /\ [][ScenarioNext]_vars

\* Two invocations of extract_workouts_from_pdf on the same bytes: the caller keeps
\* what the first returned and calls again, later or on the same day, with a
\* plan_start_date of its choice
RepeatDocs == {d \in Docs : d = BadBytes \/ Len(d) <= 1}

RepeatPlanStarts == PlanStartDates \cup {<<2025, 1, 6>>}

RepeatInit ==
    /\ pc = "start"
    /\ callee = "extract_workouts_from_pdf"
    /\ doc \in RepeatDocs
    /\ arg \in RepeatPlanStarts
    /\ now \in WalkNows
    /\ ret = None
    /\ page_num = 0
    /\ table_num = 0
    /\ row_num = 0
    /\ day_col_indices = <<>>
    /\ workouts = <<>>
    /\ exc = None
    /\ result = <<>>
    /\ IdleDb
    /\ IdleImport
    /\ IdleAuth

\* the second invocation carrying over the list of the first (a list shared by the calls)
Invoke_SharedList ==
    /\ pc = "done"
    /\ ret = None
    /\ ret' = <<[result |-> result, now |-> now, plan_start_date |-> arg]>>
    /\ \E later \in WalkNows : DaysBetween(later, now) >= 0 /\ now' = later
    /\ arg' \in RepeatPlanStarts
    /\ pc' = "start"
    /\ page_num' = 0 /\ table_num' = 0 /\ row_num' = 0
    /\ day_col_indices' = <<>>
    /\ workouts' = result
    /\ exc' = None
    /\ result' = <<>>
    /\ UNCHANGED <<callee, doc>>
    /\ UNCHANGED <<dbVars, importVars, authVars>>

\* line 229: the second invocation begins with its own empty list
Invoke ==
    /\ pc = "done"
    /\ ret = None
    /\ ret' = <<[result |-> result, now |-> now, plan_start_date |-> arg]>>
    /\ \E later \in WalkNows : DaysBetween(later, now) >= 0 /\ now' = later
    /\ arg' \in RepeatPlanStarts
    /\ pc' = "start"
    /\ page_num' = 0 /\ table_num' = 0 /\ row_num' = 0
    /\ day_col_indices' = <<>>
    /\ workouts' = <<>>
    /\ exc' = None
    /\ result' = <<>>
    /\ UNCHANGED <<callee, doc>>
    /\ UNCHANGED <<dbVars, importVars, authVars>>

RepeatNext == Next \/ Invoke

RepeatSpec == RepeatInit /\ [][RepeatNext]_vars

-----------------------------------------------------------------------------
(* PlanService over the plans table.  A date is <<year, month, day>>; a request   *)
(* body is what its pydantic schema accepted, fields_set naming the fields the     *)
(* body gave a value, null included (model_dump(exclude_unset=True) keeps those)   *)

\* PLAN_VALIDATION.MAX_DAYS
MAX_DAYS == 365

PlanIds == {"p1", "p2"}

PlanDates == {<<2023, 1, 1>>, <<2023, 1, 2>>, <<2023, 7, 1>>, <<2024, 1, 1>>, <<2024, 1, 2>>}

\* (end_date - start_date).days
duration(start_date, end_date) == DaysBetween(end_date, start_date)

\* PlanCreate.validate_dates: TRUE where the validator returns self
PlanCreate_validate_dates(self) == ~(duration(self.start_date, self.end_date) > MAX_DAYS)

\* PlanUpdate.validate_dates: TRUE where the validator returns self
PlanUpdate_validate_dates(self) ==
    (self.start_date # None /\ self.end_date # None) =>
        ~(duration(self.start_date, self.end_date) > MAX_DAYS)

\* the bodies PlanCreate accepts
PlanCreates ==
    {self \in [start_date : PlanDates, end_date : PlanDates] : PlanCreate_validate_dates(self)}

\* the bodies PlanUpdate accepts: each date absent, null or a date
PlanUpdates ==
    {self \in [start_date : PlanDates \cup {None}, end_date : PlanDates \cup {None},
               fields_set : SUBSET {"start_date", "end_date"}] :
        /\ self.start_date # None => "start_date" \in self.fields_set
        /\ self.end_date # None => "end_date" \in self.fields_set
        /\ PlanUpdate_validate_dates(self)}

\* the services are called, no parser call is running
IdleParser ==
    /\ pc = "idle"
    /\ callee = "services"
    /\ arg = None
    /\ ret = None
    /\ now = AnyDay
    /\ IdleWalk

\* PlanService.validate_plan_dates accepting equal dates (< for <=)
validate_plan_dates_AllowsEqual(start_date, end_date) ==
    ~(ToOrdinal(end_date) < ToOrdinal(start_date))

\* PlanService.validate_plan_dates: TRUE where it returns True, FALSE where it raises
\* ValidationError
validate_plan_dates(start_date, end_date) ==
    ~(ToOrdinal(end_date) <= ToOrdinal(start_date))

\* PlanService.create_plan
create_plan ==
    \E plan_data \in PlanCreates :
        /\ request' = [op |-> "create_plan", plan_data |-> plan_data]
        /\ IF ~validate_plan_dates(plan_data.start_date, plan_data.end_date)
           THEN raised' = <<"ValidationError">> /\ UNCHANGED <<plans, ids>>
           ELSE \E id \in PlanIds \ ids :
                   /\ plans' = plans @@ (id :> [start_date |-> plan_data.start_date,
                                                end_date |-> plan_data.end_date])
                   /\ ids' = ids \cup {id}
                   /\ raised' = None
        /\ UNCHANGED <<db_workouts, runs, callVars, walkVars, importVars,
                     authVars>>

\* PlanCRUD.update, lines 200-206: the row after setattr of every field of the body
\* that was set
PlanCRUD_update(plan, obj_in) ==
    [start_date |-> IF "start_date" \in obj_in.fields_set THEN obj_in.start_date
                    ELSE plan.start_date,
     end_date |-> IF "end_date" \in obj_in.fields_set THEN obj_in.end_date
                  ELSE plan.end_date]

\* PlanService.update_plan; flush refuses a null in a NOT NULL column
update_plan ==
    \E plan_id \in PlanIds, plan_data \in PlanUpdates :
        /\ request' = [op |-> "update_plan", plan_id |-> plan_id, plan_data |-> plan_data]
        /\ IF plan_id \notin DOMAIN plans
           THEN raised' = <<"NotFoundError", "Plan">> /\ UNCHANGED plans
           ELSE LET existing_plan == plans[plan_id]
                    start_date == IF plan_data.start_date # None THEN plan_data.start_date
                                  ELSE existing_plan.start_date
                    end_date == IF plan_data.end_date # None THEN plan_data.end_date
                                ELSE existing_plan.end_date
                    plan == PlanCRUD_update(existing_plan, plan_data)
                IN  IF ~validate_plan_dates(start_date, end_date)
                    THEN raised' = <<"ValidationError">> /\ UNCHANGED plans
                    ELSE IF plan.start_date = None \/ plan.end_date = None
                    THEN raised' = <<"DatabaseError">> /\ UNCHANGED plans
                    ELSE raised' = None /\ plans' = [plans EXCEPT ![plan_id] = plan]
        /\ UNCHANGED <<db_workouts, runs, ids, callVars, walkVars, importVars,
                     authVars>>

\* a delete that leaves the rows of the plan's children where they are
NotOfPlan_NoCascade(table, plan_id) == table

\* the rows of a table that do not belong to the plan
NotOfPlan(table, plan_id) ==
    [id \in {i \in DOMAIN table : table[i].plan_id # plan_id} |-> table[id]]

\* the table without the row
Without(table, row_id) == [id \in DOMAIN table \ {row_id} |-> table[id]]

\* PlanService.delete_plan; the plan's workouts and runs go with it
\* (cascade="all, delete-orphan")
delete_plan ==
    \E plan_id \in PlanIds :
        /\ request' = [op |-> "delete_plan", plan_id |-> plan_id]
        /\ IF plan_id \notin DOMAIN plans
           THEN raised' = <<"NotFoundError", "Plan">> /\ UNCHANGED <<plans, db_workouts, runs>>
           ELSE /\ raised' = None
                /\ plans' = Without(plans, plan_id)
                /\ db_workouts' = NotOfPlan(db_workouts, plan_id)
                /\ runs' = NotOfPlan(runs, plan_id)
        /\ UNCHANGED <<ids, callVars, walkVars, importVars,
                     authVars>>

PlanInit == IdleParser /\ IdleDb /\ IdleImport /\ IdleAuth

PlanNext == create_plan \/ update_plan \/ delete_plan

PlanSpec == PlanInit /\ [][PlanNext]_vars

-----------------------------------------------------------------------------
(* WorkoutService and RunService over the workouts and runs tables.  A workout row *)
(* holds its plan_id, a run row its plan_id and its workout_id, an id or NoId.      *)

WorkoutIds == {"w1", "w2"}

\* no workout: None in a body, NULL in the workout_id column
NoId == "none"

RunIds == {"r1", "r2"}

\* the bodies RunCreate accepts: workout_id is optional
RunCreates == [workout_id : WorkoutIds \cup {NoId}]

\* the bodies RunUpdate accepts: workout_id absent, null or an id
RunUpdates ==
    {self \in [workout_id : WorkoutIds \cup {NoId}, fields_set : SUBSET {"workout_id"}] :
        self.workout_id # NoId => "workout_id" \in self.fields_set}

\* WorkoutCRUD.get: TRUE where a workout is returned, whatever its plan
WorkoutCRUD_get(plan_id, workout_id) == workout_id \in DOMAIN db_workouts

\* WorkoutCRUD.get_by_plan_and_id: TRUE where a workout is returned
get_by_plan_and_id(plan_id, workout_id) ==
    /\ workout_id \in DOMAIN db_workouts
    /\ db_workouts[workout_id].plan_id = plan_id

\* WORKOUT_VALIDATION.MIN_PACE_SEC
MIN_PACE_SEC == 180

\* WORKOUT_VALIDATION.MAX_PACE_SEC
MAX_PACE_SEC == 3000

\* an Optional[int] field: None, or <<n>> for the integer n
Paces == {None, <<179>>, <<180>>, <<3000>>}

\* WorkoutCreate.validate_pace_range: TRUE where the validator returns self
validate_pace_range(self) ==
    LET min_pace == self.target_pace_min_sec
        max_pace == self.target_pace_max_sec
    IN  IF min_pace = None /\ max_pace = None THEN TRUE
        ELSE IF (min_pace = None) # (max_pace = None) THEN FALSE
        ELSE IF min_pace[1] < MIN_PACE_SEC THEN FALSE
        ELSE IF min_pace[1] > MAX_PACE_SEC THEN FALSE
        ELSE IF max_pace[1] < MIN_PACE_SEC THEN FALSE
        ELSE IF max_pace[1] > MAX_PACE_SEC THEN FALSE
        ELSE ~(min_pace[1] > max_pace[1])

\* the bodies WorkoutCreate accepts, as far as the pace fields go
WorkoutCreates ==
    {self \in [target_pace_min_sec : Paces, target_pace_max_sec : Paces] :
        validate_pace_range(self)}

\* the bodies WorkoutUpdate accepts: it has no validator of the pace fields, each is
\* absent, null or an integer
WorkoutUpdates ==
    {self \in [target_pace_min_sec : Paces, target_pace_max_sec : Paces,
               fields_set : SUBSET {"target_pace_min_sec", "target_pace_max_sec"}] :
        /\ self.target_pace_min_sec # None => "target_pace_min_sec" \in self.fields_set
        /\ self.target_pace_max_sec # None => "target_pace_max_sec" \in self.fields_set}

\* a body without target pace
NoPaces == [target_pace_min_sec |-> None, target_pace_max_sec |-> None]

\* WorkoutService.create_workout, called with a body of the set
CreateWorkout(bodies) ==
    \E plan_id \in PlanIds, workout_data \in bodies :
        /\ request' = [op |-> "create_workout", plan_id |-> plan_id,
                       workout_data |-> workout_data]
        /\ IF plan_id \notin DOMAIN plans
           THEN raised' = <<"NotFoundError", "Plan">> /\ UNCHANGED <<db_workouts, ids>>
           ELSE \E id \in WorkoutIds \ ids :
                   /\ db_workouts' = db_workouts @@
                         (id :> [plan_id |-> plan_id,
                                 target_pace_min_sec |-> workout_data.target_pace_min_sec,
                                 target_pace_max_sec |-> workout_data.target_pace_max_sec])
                   /\ ids' = ids \cup {id}
                   /\ raised' = None
        /\ UNCHANGED <<plans, runs, callVars, walkVars, importVars,
                     authVars>>

\* WorkoutService.create_workout of workouts without target pace
create_workout == CreateWorkout({NoPaces})

\* WorkoutCRUD.update, lines 259-264: the row after setattr of every field of the body
\* that was set
WorkoutCRUD_update(workout, obj_in) ==
    [workout EXCEPT
        !.target_pace_min_sec = IF "target_pace_min_sec" \in obj_in.fields_set
                                THEN obj_in.target_pace_min_sec ELSE @,
        !.target_pace_max_sec = IF "target_pace_max_sec" \in obj_in.fields_set
                                THEN obj_in.target_pace_max_sec ELSE @]

\* WorkoutService.update_workout
update_workout ==
    \E plan_id \in PlanIds, workout_id \in WorkoutIds, workout_data \in WorkoutUpdates :
        /\ request' = [op |-> "update_workout", plan_id |-> plan_id,
                       workout_id |-> workout_id, workout_data |-> workout_data]
        /\ IF plan_id \notin DOMAIN plans
           THEN raised' = <<"NotFoundError", "Plan">> /\ UNCHANGED db_workouts
           ELSE IF ~get_by_plan_and_id(plan_id, workout_id)
           THEN raised' = <<"NotFoundError", "Workout">> /\ UNCHANGED db_workouts
           ELSE /\ raised' = None
                /\ db_workouts' = [db_workouts EXCEPT ![workout_id] =
                                      WorkoutCRUD_update(db_workouts[workout_id], workout_data)]
        /\ UNCHANGED <<plans, runs, ids, callVars, walkVars, importVars,
                     authVars>>

\* the runs after their workout was deleted: Run.workout_id is SET NULL
Unlinked(workout_id) ==
    [id \in DOMAIN runs |-> IF runs[id].workout_id = workout_id
                            THEN [runs[id] EXCEPT !.workout_id = NoId]
                            ELSE runs[id]]

\* WorkoutService.delete_workout
delete_workout ==
    \E plan_id \in PlanIds, workout_id \in WorkoutIds :
        /\ request' = [op |-> "delete_workout", plan_id |-> plan_id, workout_id |-> workout_id]
        /\ IF plan_id \notin DOMAIN plans
           THEN raised' = <<"NotFoundError", "Plan">> /\ UNCHANGED <<db_workouts, runs>>
           ELSE IF ~get_by_plan_and_id(plan_id, workout_id)
           THEN raised' = <<"NotFoundError", "Workout">> /\ UNCHANGED <<db_workouts, runs>>
           ELSE /\ raised' = None
                /\ db_workouts' = Without(db_workouts, workout_id)
                /\ runs' = Unlinked(workout_id)
        /\ UNCHANGED <<plans, ids, callVars, walkVars, importVars,
                     authVars>>

\* RunService.create_run
create_run ==
    \E plan_id \in PlanIds, run_data \in RunCreates :
        /\ request' = [op |-> "create_run", plan_id |-> plan_id, run_data |-> run_data]
        /\ IF plan_id \notin DOMAIN plans
           THEN raised' = <<"NotFoundError", "Plan">> /\ UNCHANGED <<runs, ids>>
           ELSE IF run_data.workout_id # NoId
                   /\ ~get_by_plan_and_id(plan_id, run_data.workout_id)
           THEN raised' = <<"NotFoundError", "Workout">> /\ UNCHANGED <<runs, ids>>
           ELSE \E id \in RunIds \ ids :
                   /\ runs' = runs @@ (id :> [plan_id |-> plan_id,
                                              workout_id |-> run_data.workout_id])
                   /\ ids' = ids \cup {id}
                   /\ raised' = None
        /\ UNCHANGED <<plans, db_workouts, callVars, walkVars, importVars,
                     authVars>>

\* RunCRUD.update, lines 247-250: the row after setattr of every field of the body
\* that was set
RunCRUD_update(run, obj_in) ==
    IF "workout_id" \in obj_in.fields_set THEN [run EXCEPT !.workout_id = obj_in.workout_id]
    ELSE run

\* RunService.update_run
update_run ==
    \E run_id \in RunIds, run_data \in RunUpdates :
        /\ request' = [op |-> "update_run", run_id |-> run_id, run_data |-> run_data]
        /\ IF run_id \notin DOMAIN runs
           THEN raised' = <<"NotFoundError", "Run">> /\ UNCHANGED runs
           ELSE IF run_data.workout_id # NoId
                   /\ ~get_by_plan_and_id(runs[run_id].plan_id, run_data.workout_id)
           THEN raised' = <<"NotFoundError", "Workout">> /\ UNCHANGED runs
           ELSE /\ raised' = None
                /\ runs' = [runs EXCEPT ![run_id] = RunCRUD_update(runs[run_id], run_data)]
        /\ UNCHANGED <<plans, db_workouts, ids, callVars, walkVars, importVars,
                     authVars>>

\* RunService.delete_run
delete_run ==
    \E run_id \in RunIds :
        /\ request' = [op |-> "delete_run", run_id |-> run_id]
        /\ IF run_id \notin DOMAIN runs
           THEN raised' = <<"NotFoundError", "Run">> /\ UNCHANGED runs
           ELSE raised' = None /\ runs' = Without(runs, run_id)
        /\ UNCHANGED <<plans, db_workouts, ids, callVars, walkVars, importVars,
                     authVars>>

\* the plans the workouts and runs are created under: two calls of create_plan
\* were made
RunPlan == [start_date |-> <<2023, 1, 1>>, end_date |-> <<2023, 7, 1>>]

RunInit ==
    /\ IdleParser
    /\ plans = [id \in PlanIds |-> RunPlan]
    /\ db_workouts = <<>>
    /\ runs = <<>>
    /\ ids = PlanIds
    /\ request = [op |-> "create_plan", plan_data |-> RunPlan]
    /\ raised = None
    /\ IdleImport
    /\ IdleAuth

RunNext ==
    \/ create_workout
    \/ delete_workout
    \/ create_run
    \/ update_run
    \/ delete_run
    \/ delete_plan

RunSpec == RunInit /\ [][RunNext]_vars

\* creations and updates of workouts with target paces, under one stored plan: one
\* call of create_plan was made
PaceInit ==
    /\ IdleParser
    /\ plans = [id \in {"p1"} |-> RunPlan]
    /\ db_workouts = <<>>
    /\ runs = <<>>
    /\ ids = {"p1"}
    /\ request = [op |-> "create_plan", plan_data |-> RunPlan]
    /\ raised = None
    /\ IdleImport
    /\ IdleAuth

PaceNext == CreateWorkout(WorkoutCreates) \/ update_workout

PaceSpec == PaceInit /\ [][PaceNext]_vars

-----------------------------------------------------------------------------
(* Reads through the services, and the status the exception handlers answer *)

\* the exception handlers of the application: the HTTP status of a call's outcome
status_code(e) ==
    IF e = None THEN 200
    ELSE IF e[1] = "ValidationError" THEN 400
    ELSE IF e[1] = "NotFoundError" THEN 404
    ELSE 500

\* PlanService.get_plan
get_plan ==
    \E plan_id \in PlanIds :
        /\ request' = [op |-> "get_plan", plan_id |-> plan_id]
        /\ raised' = IF plan_id \notin DOMAIN plans THEN <<"NotFoundError", "Plan">> ELSE None
        /\ UNCHANGED <<plans, db_workouts, runs, ids, callVars, walkVars, importVars,
                     authVars>>

\* WorkoutService.get_workout
get_workout ==
    \E plan_id \in PlanIds, workout_id \in WorkoutIds :
        /\ request' = [op |-> "get_workout", plan_id |-> plan_id, workout_id |-> workout_id]
        /\ raised' = IF plan_id \notin DOMAIN plans THEN <<"NotFoundError", "Plan">>
                     ELSE IF ~get_by_plan_and_id(plan_id, workout_id)
                     THEN <<"NotFoundError", "Workout">>
                     ELSE None
        /\ UNCHANGED <<plans, db_workouts, runs, ids, callVars, walkVars, importVars,
                     authVars>>

\* two plans, each with a workout and a run, the run of p1 linked to its workout:
\* create_plan, create_workout and create_run were each called twice
CascadeInit ==
    /\ IdleParser
    /\ plans = [id \in PlanIds |-> RunPlan]
    /\ db_workouts = [w1 |-> [plan_id |-> "p1"] @@ NoPaces, w2 |-> [plan_id |-> "p2"] @@ NoPaces]
    /\ runs = [r1 |-> [plan_id |-> "p1", workout_id |-> "w1"],
               r2 |-> [plan_id |-> "p2", workout_id |-> NoId]]
    /\ ids = PlanIds \cup WorkoutIds \cup RunIds
    /\ request = [op |-> "create_run", plan_id |-> "p2",
                  run_data |-> [workout_id |-> NoId]]
    /\ raised = None
    /\ IdleImport
    /\ IdleAuth

CascadeNext == get_plan \/ update_plan \/ delete_plan \/ get_workout

CascadeSpec == CascadeInit /\ [][CascadeNext]_vars

\* the workouts of two stored plans are read, updated and deleted through either plan
ReachNext == create_workout \/ get_workout \/ update_workout \/ delete_workout

ReachSpec == RunInit /\ [][ReachNext]_vars

-----------------------------------------------------------------------------
(* AnalyticsService.get_plan_progress.  Its counts are kept; the sums of distances  *)
(* are not, the rows hold no distance.  The percentage is held in tenths.           *)

\* count(Workout.id) filtered on the plan
total_workouts(plan_id) ==
    Cardinality({w \in DOMAIN db_workouts : db_workouts[w].plan_id = plan_id})

\* count of the plan's runs that have a workout_id, one per run
completed_workouts_PerRun(plan_id) ==
    Cardinality({r \in DOMAIN runs : runs[r].plan_id = plan_id /\ runs[r].workout_id # NoId})

\* count(distinct(Run.workout_id)) filtered on the plan and on workout_id not null
completed_workouts(plan_id) ==
    Cardinality({runs[r].workout_id :
                    r \in {x \in DOMAIN runs : runs[x].plan_id = plan_id
                                                /\ runs[x].workout_id # NoId}})

\* round((completed / total) * 100, 1), in tenths of a percent; 0.0 when total is 0
adherence_percentage(completed, total) ==
    IF total > 0 THEN (2000 * completed + total) \div (2 * total) ELSE 0

\* AnalyticsService.get_plan_progress
get_plan_progress ==
    \E plan_id \in PlanIds :
        /\ request' = [op |-> "get_plan_progress", plan_id |-> plan_id]
        /\ IF plan_id \notin DOMAIN plans
           THEN raised' = <<"NotFoundError", "Plan">> /\ ret' = None
           ELSE /\ raised' = None
                /\ ret' = [total_workouts |-> total_workouts(plan_id),
                           completed_workouts |-> completed_workouts(plan_id),
                           pending_workouts |-> total_workouts(plan_id)
                                                   - completed_workouts(plan_id),
                           adherence_percentage |->
                               adherence_percentage(completed_workouts(plan_id),
                                                    total_workouts(plan_id))]
        /\ UNCHANGED <<plans, db_workouts, runs, ids, pc, callee, arg, now, walkVars, importVars,
                     authVars>>

ProgressNext == RunNext \/ get_plan_progress

ProgressSpec == RunInit /\ [][ProgressNext]_vars

-----------------------------------------------------------------------------
(* AnalyticsService.get_weekly_summary.  The week's number and dates are kept; the  *)
(* sums and counts over the week are not, the rows hold no date.                    *)

\* an Optional[int] query parameter: None, or <<n>> for the integer n
WeekNumbers == {None} \cup {<<n>> : n \in {0, 1, 2, 26, 27, 28, 53, 54}}

\* (plan_duration_days // 7) + 1
plan_duration_weeks(plan) == (duration(plan.start_date, plan.end_date) \div 7) + 1

\* AnalyticsService.get_weekly_summary
get_weekly_summary ==
    \E plan_id \in PlanIds, week_number \in WeekNumbers :
        /\ request' = [op |-> "get_weekly_summary", plan_id |-> plan_id,
                       week_number |-> week_number]
        /\ IF plan_id \notin DOMAIN plans
           THEN raised' = <<"NotFoundError", "Plan">> /\ ret' = None
           ELSE LET plan == plans[plan_id]
                    week == IF week_number = None THEN 1 ELSE week_number[1]
                    week_start_date == AddDays(plan.start_date, (week - 1) * 7)
                    week_end_date == AddDays(week_start_date, 6)
                IN  IF week < 1 \/ week > plan_duration_weeks(plan)
                    THEN raised' = <<"ValidationError">> /\ ret' = None
                    ELSE /\ raised' = None
                         /\ ret' = [week_number |-> week,
                                    start_date |-> week_start_date,
                                    end_date |-> IF ToOrdinal(week_end_date)
                                                      > ToOrdinal(plan.end_date)
                                                 THEN plan.end_date ELSE week_end_date]
        /\ UNCHANGED <<plans, db_workouts, runs, ids, pc, callee, arg, now, walkVars, importVars,
                     authVars>>

\* today's date when the summaries are asked for
WeekNows == {<<2023, 1, 1>>, <<2023, 1, 7>>, <<2023, 1, 8>>, <<2023, 6, 30>>, <<2024, 1, 1>>}

\* one plan is stored, of any dates create_plan stores: one call of create_plan was made
WeekInit ==
    /\ pc = "idle"
    /\ callee = "services"
    /\ arg = None
    /\ ret = None
    /\ IdleWalk
    /\ now \in WeekNows
    /\ \E plan_data \in PlanCreates :
          /\ validate_plan_dates(plan_data.start_date, plan_data.end_date)
          /\ plans = [id \in {"p1"} |-> plan_data]
          /\ request = [op |-> "create_plan", plan_data |-> plan_data]
    /\ db_workouts = <<>>
    /\ runs = <<>>
    /\ ids = {"p1"}
    /\ raised = None
    /\ IdleImport
    /\ IdleAuth

WeekSpec == WeekInit /\ [][get_weekly_summary]_vars

-----------------------------------------------------------------------------
(* import_pdf of the pdf service: it calls extract_workouts_from_pdf and sends one   *)
(* create-workout POST for each record.  The request is taken after its header, file *)
(* name and date were accepted.                                                      *)

\* what requests.post gives: a response of some status, or a RequestException
Outcomes == {"201", "200", "404", "422", "RequestException"}

\* dict.get(key): None where the dict does not hold the key
Get(d, key) == IF key \in DOMAIN d THEN d[key] ELSE None

\* lines 125-135: the body of the POST built from a record; the paces are added where
\* the record holds both, none of them None or 0
WorkoutData(workout) ==
    LET workout_data == [name |-> workout.name,
                         workout_type |-> workout.workout_type,
                         planned_distance |-> workout.planned_distance,
                         scheduled_date |-> workout.scheduled_date]
        target_pace_min_sec == Get(workout, "target_pace_min_sec")
        target_pace_max_sec == Get(workout, "target_pace_max_sec")
    IN  IF target_pace_min_sec \notin {None, <<0>>} /\ target_pace_max_sec \notin {None, <<0>>}
        THEN [name |-> workout.name,
              workout_type |-> workout.workout_type,
              planned_distance |-> workout.planned_distance,
              scheduled_date |-> workout.scheduled_date,
              target_pace_min_sec |-> target_pace_min_sec,
              target_pace_max_sec |-> target_pace_max_sec]
        ELSE workout_data

\* lines 111-120: the list came back; an empty list is answered 400
Extracted ==
    /\ pc = "done"
    /\ callee = "import_pdf"
    /\ IF result = <<>>
       THEN pc' = "answered" /\ response' = [status_code |-> 400] /\ UNCHANGED post_num
       ELSE pc' = "posting" /\ post_num' = 1 /\ UNCHANGED response
    /\ UNCHANGED <<callee, arg, ret, now, walkVars, dbVars, authVars, posts,
                   workouts_created, workouts_failed>>

\* one pass of the loop that posts the record again when the POST failed
Post_RetryOnFailure ==
    /\ pc = "posting"
    /\ post_num <= Len(result)
    /\ \E outcome \in Outcomes :
          /\ posts' = Append(posts, [json |-> WorkoutData(result[post_num]),
                                     outcome |-> outcome])
          /\ IF outcome = "201"
             THEN /\ workouts_created' = workouts_created + 1
                  /\ post_num' = post_num + 1
                  /\ UNCHANGED workouts_failed
             ELSE /\ workouts_failed' = workouts_failed + 1
                  /\ post_num' = IF workouts_failed = 0 THEN post_num ELSE post_num + 1
                  /\ UNCHANGED workouts_created
    /\ UNCHANGED <<callVars, walkVars, dbVars, authVars, response>>

\* lines 123-160: one pass of the loop over the records
Post ==
    /\ pc = "posting"
    /\ post_num <= Len(result)
    /\ \E outcome \in Outcomes :
          /\ posts' = Append(posts, [json |-> WorkoutData(result[post_num]),
                                     outcome |-> outcome])
          /\ IF outcome = "201"
             THEN workouts_created' = workouts_created + 1 /\ UNCHANGED workouts_failed
             ELSE workouts_failed' = workouts_failed + 1 /\ UNCHANGED workouts_created
    /\ post_num' = post_num + 1
    /\ UNCHANGED <<callVars, walkVars, dbVars, authVars, response>>

\* lines 162-171: the loop is over, the counts are answered
Respond ==
    /\ pc = "posting"
    /\ post_num > Len(result)
    /\ pc' = "answered"
    /\ response' = [status_code |-> 200, status |-> "success",
                    workouts_created |-> workouts_created,
                    workouts_failed |-> workouts_failed]
    /\ UNCHANGED <<callee, arg, ret, now, walkVars, dbVars, authVars, post_num, posts,
                   workouts_created, workouts_failed>>

\* the uploaded files: the scenario document, a document without pages, bytes that
\* are no PDF
ImportDocs == {<<<<ScenarioTable>>>>, <<>>, BadBytes}

ImportInit ==
    /\ pc = "start"
    /\ callee = "import_pdf"
    /\ doc \in ImportDocs
    /\ arg \in PlanStartDates
    /\ now \in WalkNows
    /\ ret = None
    /\ page_num = 0
    /\ table_num = 0
    /\ row_num = 0
    /\ day_col_indices = <<>>
    /\ workouts = <<>>
    /\ exc = None
    /\ result = <<>>
    /\ IdleDb
    /\ IdleImport
    /\ IdleAuth

ImportNext == Next \/ Extracted \/ Post \/ Respond

ImportSpec == ImportInit /\ [][ImportNext]_vars

-----------------------------------------------------------------------------
(* register of the auth service.  The endpoint is a plain def, so requests run      *)
(* side by side in the thread pool, each with its own session; a request is two     *)
(* steps on the database, the query for the email and the commit of the new row.    *)

RegIds == {"a", "b", "c"}

Emails == {"x@y.z", "u@v.w"}

\* lines 174-178: the query for the email; a user that is found is answered 400
Query(r) ==
    /\ reg[r].pc = "received"
    /\ reg' = [reg EXCEPT ![r] =
                  IF \E u \in users : u.email = reg[r].email
                  THEN [@ EXCEPT !.pc = "answered", !.status_code = 400,
                                 !.detail = "Email already registered"]
                  ELSE [@ EXCEPT !.pc = "checked"]]
    /\ UNCHANGED <<users, callVars, walkVars, dbVars, importVars>>

\* the commit on a users table whose email column has no unique index
Commit_NoUniqueIndex(r) ==
    /\ reg[r].pc = "checked"
    /\ users' = users \cup {[id |-> r, email |-> reg[r].email]}
    /\ reg' = [reg EXCEPT ![r] = [@ EXCEPT !.pc = "answered", !.status_code = 201]]
    /\ UNCHANGED <<callVars, walkVars, dbVars, importVars>>

\* lines 180-202: the row is added and committed and 201 is answered; the unique index
\* on users.email refuses a second row of the same email, and the database may refuse
\* a commit while it is locked: either exception is rolled back and answered 400
Commit(r) ==
    /\ reg[r].pc = "checked"
    /\ \/ /\ \E u \in users : u.email = reg[r].email
          /\ reg' = [reg EXCEPT ![r] = [@ EXCEPT !.pc = "answered", !.status_code = 400,
                                                 !.detail = "IntegrityError"]]
          /\ UNCHANGED users
       \/ /\ reg' = [reg EXCEPT ![r] = [@ EXCEPT !.pc = "answered", !.status_code = 400,
                                                 !.detail = "OperationalError"]]
          /\ UNCHANGED users
       \/ /\ ~\E u \in users : u.email = reg[r].email
          /\ users' = users \cup {[id |-> r, email |-> reg[r].email]}
          /\ reg' = [reg EXCEPT ![r] = [@ EXCEPT !.pc = "answered", !.status_code = 201]]
    /\ UNCHANGED <<callVars, walkVars, dbVars, importVars>>

\* three register requests were received, each for one of two emails
AuthInit ==
    /\ IdleParser
    /\ IdleDb
    /\ IdleImport
    /\ users = {}
    /\ reg \in [RegIds -> [pc : {"received"}, email : Emails, status_code : {0},
                           detail : {""}]]

AuthNext == \E r \in RegIds : Query(r) \/ Commit(r)

AuthSpec == AuthInit /\ [][AuthNext]_vars

-----------------------------------------------------------------------------
(* The WorkoutCreate schema applied to the body the import endpoint posts *)

\* WORKOUT_VALIDATION.MIN_DISTANCE, in tenths
MIN_DISTANCE_TENTHS == 1

MAX_DISTANCE == 100

\* the values of the WorkoutType enum without CROSS_TRAINING
WorkoutType_NoCrossTraining == {"EASY", "TEMPO", "LONG", "SPEED", "RECOVERY", "REST"}

\* [wt.value for wt in WorkoutType]
WorkoutType == {"EASY", "TEMPO", "LONG", "SPEED", "RECOVERY", "CROSS_TRAINING", "REST"}

\* TRUE where the validator returns the value
validate_name(v) == ~(v = <<>> \/ strip(v) = <<>>)

validate_workout_type(v) == v \in WorkoutType

\* v < MIN_DISTANCE and v > MAX_DISTANCE on a decimal <<integer digits, decimals>>
validate_distance(v) ==
    LET below == v[1] = <<>> /\ (v[2] = <<>> \/ DigitVal(v[2][1]) < MIN_DISTANCE_TENTHS)
        above == \/ Len(v[1]) > 3
                 \/ Len(v[1]) = 3 /\ \/ IntOf(v[1]) > MAX_DISTANCE
                                     \/ IntOf(v[1]) = MAX_DISTANCE /\ v[2] # <<>>
    IN  ~below /\ ~above

\* Optional[date] read from a JSON string: YYYY-MM-DD of a day of the calendar
validate_date(v) ==
    /\ Len(v) = 10
    /\ v[5] = "-" /\ v[8] = "-"
    /\ \A i \in {1, 2, 3, 4, 6, 7, 9, 10} : IsDigit(v[i])
    /\ LET y == IntOf(SubSeq(v, 1, 4))
           m == IntOf(SubSeq(v, 6, 7))
           d == IntOf(SubSeq(v, 9, 10))
       IN  y >= 1 /\ m \in 1..12 /\ d \in 1..DaysInMonth(y, m)

\* WorkoutCreate(**body): TRUE where no validator raises
WorkoutCreate(body) ==
    /\ {"name", "workout_type", "planned_distance"} \subseteq DOMAIN body
    /\ validate_name(body.name)
    /\ validate_workout_type(body.workout_type)
    /\ validate_distance(body.planned_distance)
    /\ Get(body, "scheduled_date") = None \/ validate_date(body.scheduled_date)
    /\ validate_pace_range([target_pace_min_sec |-> Get(body, "target_pace_min_sec"),
                            target_pace_max_sec |-> Get(body, "target_pace_max_sec")])

\* parse_workout_cell on the cells of the ends of the range, of long names and of "off"
SchemaCells == BoundaryCells \cup NameCells \cup OffTexts \cup {NoneText}

SchemaInit ==
    /\ pc = "call"
    /\ callee = "parse_workout_cell"
    /\ arg \in SchemaCells \X CellDates
    /\ now = AnyDay
    /\ ret = None
    /\ IdleWalk
    /\ IdleDb
    /\ IdleImport
    /\ IdleAuth

SchemaSpec == SchemaInit /\ [][CellNext]_vars

-----------------------------------------------------------------------------
(* The claims *)

Min(S) == CHOOSE x \in S : \A y \in S : x <= y

CurTable == doc[page_num][table_num]

\* floor(10 * x) of a distance x of fewer than four digits before the point
FloorTenths(x) == IntOf(x[1]) * 10 + (IF x[2] = <<>> THEN 0 ELSE DigitVal(x[2][1]))

\* 0.5 <= x <= 25
Within(x) ==
    /\ Len(x[1]) <= 3
    /\ FloorTenths(x) >= 5
    /\ FloorTenths(x) < 250 \/ (FloorTenths(x) = 250 /\ x[2] = <<>>)

IsIsoDate(t) ==
    /\ Len(t) = 10
    /\ t[5] = "-" /\ t[8] = "-"
    /\ \A i \in {1, 2, 3, 4, 6, 7, 9, 10} : IsDigit(t[i])

\* more rows than any table of the pool has
RowSpan == 1 + Cardinality(UNION {DOMAIN t : t \in TablePool})

\* how far the walk has come: pages, then tables within a page, then rows within a table
Progress ==
    CASE pc = "start"  -> 0
      [] pc = "pages"  -> page_num * (MaxTables + 2) * RowSpan
      [] pc = "tables" -> (page_num * (MaxTables + 2) + table_num) * RowSpan
      [] pc = "rows"   -> (page_num * (MaxTables + 2) + table_num) * RowSpan + row_num
      [] pc \in {"return", "except"} -> (MaxPages + 2) * (MaxTables + 2) * RowSpan
      [] OTHER -> (MaxPages + 2) * (MaxTables + 2) * RowSpan + 1

\* the positions of the walk that have a step to take: each is the guard of one action
Running == {"start", "pages", "tables", "rows", "return", "except"}

\* C1: for every input (bad bytes, a page that cannot be decoded, null rows, null
\* cells, a null header row, rows of differing lengths) extract_workouts_from_pdf
\* ends by returning: no step lets an exception reach the caller, every step brings
\* the call nearer to its return, and every step leads either to the return or to a
\* position from which the walk goes on.
C1_AlwaysReturns ==
    [][/\ pc' # "raised"
       /\ Progress' > Progress
       /\ pc' = "done" \/ pc' \in Running]_vars

C1_Witness == pc = "done" /\ exc = <<"TypeError">> /\ result = <<>>

\* C2: every record of the returned list has a scheduled_date, a planned_distance
\* within [0.5, 25] and one of the seven workout types.
C2_RecordsValid ==
    pc = "done" =>
        \A i \in 1..Len(result) :
            /\ result[i].scheduled_date # NoneText
            /\ IsIsoDate(result[i].scheduled_date)
            /\ Within(result[i].planned_distance)
            /\ result[i].workout_type \in WorkoutTypes

C2_Witness ==
    /\ pc = "done"
    /\ Len(doc) = 1 /\ doc[1] = <<TableA>>
    /\ Len(result) = 3

\* the week token of a data row is blank or does not resolve to a date
BadWeek(row) ==
    /\ row # NoneRow
    /\ Len(row) > 0
    /\ \/ row[1] = NoneText
       \/ strip(row[1]) = <<>>
       \/ parse_week_date(strip(row[1]), now) = None

\* C3: the step over a data row whose week token is blank or does not resolve adds
\* no record and changes nothing but the row index, so that the walk goes on with
\* the next row, table and page from the state it would have without that row.
C3_BadWeekRowSkipped ==
    [][(pc = "rows" /\ row_num <= Len(CurTable) - 1 /\ BadWeek(CurTable[row_num + 1]))
        => /\ pc' = "rows"
           /\ row_num' = row_num + 1
           /\ workouts' = workouts
           /\ UNCHANGED <<now, doc, page_num, table_num, day_col_indices, exc, result>>]_vars

C3_Witness ==
    /\ pc = "rows"
    /\ row_num >= 2
    /\ row_num <= Len(CurTable) - 1
    /\ CurTable[row_num][1] = Chars("banana")
    /\ RowWorkouts(CurTable[row_num + 1], day_col_indices, now) # <<>>

\* the records of all data rows of the document, were no exception raised
AnyRowHasRecords ==
    \E p \in 1..Len(doc) :
        /\ doc[p] # RaisingPage
        /\ \E t \in 1..Len(doc[p]) :
              /\ Len(doc[p][t]) >= 2
              /\ doc[p][t][1] # NoneRow
              /\ \E r \in 2..Len(doc[p][t]) :
                    RowWorkouts(doc[p][t][r], FindDayColumns(doc[p][t][1], 1, <<>>), now) # <<>>

\* C4: when an exception was raised in the walk the result is the empty list, whatever
\* was accumulated before; without an exception the result is what was accumulated,
\* and it is empty only when no row of the document yields a record.
C4_EmptyOnlyOnException ==
    pc = "done" =>
        IF exc # None THEN result = <<>>
        ELSE result = workouts /\ (result = <<>> <=> ~AnyRowHasRecords)

C4_Witness == pc = "done" /\ exc # None /\ workouts # <<>> /\ result = <<>>

\* the candidates of the five rules, in the order of the cascade
C5_Candidates(t) ==
    <<to_miles_match(t), total_miles_match(t), miles_match(t), start_match(t),
      first_number_match(t)>>

C5_InRangeRules(t) ==
    {k \in 1..5 : C5_Candidates(t)[k] # None /\ Within(Float(C5_Candidates(t)[k][1]))}

\* C5: parse_distance_from_text returns the candidate of the first of the five rules
\* whose candidate lies in [0.5, 25], and null exactly when the text is blank, is XT,
\* OFF or PARTAY, or no rule has a candidate in range.
C5_FirstRuleInRange ==
    (pc = "returned" /\ callee = "parse_distance_from_text") =>
        LET t == Normalize(arg)
            ok == C5_InRangeRules(t)
        IN  /\ IF ok = {} THEN ret = None ELSE ret = Float(C5_Candidates(t)[Min(ok)][1])
            /\ ret = None <=>
                  \/ strip(arg) = <<>>
                  \/ upper(strip(arg)) \in {Chars("XT"), Chars("OFF"), Chars("PARTAY")}
                  \/ ok = {}

C5_Witness ==
    /\ pc = "returned"
    /\ arg = Chars("5 to 30mi")
    /\ ret = <<Chars("5"), <<>> >>

C6_Rules ==
    <<<<{Chars("xt"), Chars("cross")}, "CROSS_TRAINING">>,
      <<{Chars("off")}, "REST">>,
      <<{Chars("tempo"), Chars("ghmp")}, "TEMPO">>,
      <<{Chars("interval"), Chars(" x "), Chars("@"), Chars("pace"), Chars("min on"),
         Chars("min off"), Chars("uphill"), Chars("5k pace"), Chars("10k pace"),
         Chars("400"), Chars("800"), Chars("1200"), Chars("warm-up")}, "SPEED">>,
      <<{Chars("long")}, "LONG">>,
      <<{Chars("recovery")}, "RECOVERY">>,
      <<{Chars("easy")}, "EASY">>,
      <<{Chars("stride")}, "EASY">>,
      <<{Chars("race"), Chars("5 mc")}, "SPEED">> >>

C6_Expected(text) ==
    LET t == lower(Normalize(text))
        hits == {k \in 1..Len(C6_Rules) : \E kw \in C6_Rules[k][1] : Contains(t, kw)}
    IN  IF t = <<>> THEN "REST"
        ELSE IF hits = {} THEN "EASY"
        ELSE C6_Rules[Min(hits)][2]

\* C6: classify_workout_type returns the label of the first rule of the ordered list
\* that has a keyword in the lower-cased text, REST for a blank text, EASY when no
\* rule matches.
C6_FirstMatchingRule ==
    (pc = "returned" /\ callee = "classify_workout_type") => ret = <<C6_Expected(arg)>>

C6_Witness ==
    /\ pc = "returned"
    /\ arg = Chars("easyTempo")
    /\ ret = <<"TEMPO">>

ValidTokens == {TokenOf(c[1], c[2]) : c \in CalendarDays}

C7_Day(t) == IntOf(SubSeq(t, 1, Len(t) - 4))

C7_Month(t) == CHOOSE m \in 1..12 : MonthAbbr[m] = lower(SubSeq(t, Len(t) - 2, Len(t)))

\* the date with the current year is more than 180 days before now
C7_LongPast(t) == DaysBetween(now, <<now[1], C7_Month(t), C7_Day(t)>>) > 180

\* C7 as stated: every calendar day, 29-Feb included, resolves to the following year
\* when the date with the current year is more than 180 days before now, and to the
\* current year otherwise.
C7_AsClaimed ==
    (pc = "returned" /\ arg \in ValidTokens) =>
        ret = <<IF C7_LongPast(arg) THEN now[1] + 1 ELSE now[1], C7_Month(arg), C7_Day(arg)>>

\* C7, amended: the same, for the days that exist in the year concerned; 29-Feb gives
\* None when the current year is no leap year, and when it is more than 180 days past
\* (the following year has no 29 February).
C7_RollsPast180 ==
    (pc = "returned" /\ arg \in ValidTokens) =>
        LET d == C7_Day(arg)
            m == C7_Month(arg)
            y == IF d <= DaysInMonth(now[1], m) /\ C7_LongPast(arg) THEN now[1] + 1 ELSE now[1]
        IN  IF d <= DaysInMonth(y, m) THEN ret = <<y, m, d>> ELSE ret = None

C7_Witness ==
    /\ pc = "returned"
    /\ arg = Chars("5-Jan")
    /\ now = <<2023, 12, 15>>
    /\ ret = <<2024, 1, 5>>

\* a cell the Cell Interpreter drops before looking for a distance
C8_Dropped(raw) ==
    \/ raw = NoneText
    \/ strip(raw) = <<>>
    \/ upper(Normalize(raw)) \in {Chars("OFF"), Chars("PARTAY"), Chars("XT")}
    \/ StartsWith(upper(Normalize(raw)), Chars("XT +"))

\* C8: a cell that is blank, equal to OFF, PARTAY or XT, or starting with "XT +"
\* never gives a record.
C8_RestAndCrossTrainingDropped ==
    (pc = "returned" /\ callee = "parse_workout_cell" /\ C8_Dropped(arg[1])) => ret = None

C8_Witness ==
    /\ pc = "returned"
    /\ arg[1] = Chars("Xt\n+5")
    /\ ret = None

\* C9: a cell that is not dropped gives a record exactly when the Distance Extractor
\* finds a distance in it; the record carries that distance and the type the
\* Workout-Type Classifier gives the same text.
C9_RecordIffDistance ==
    (pc = "returned" /\ callee = "parse_workout_cell" /\ ~C8_Dropped(arg[1])) =>
        /\ ret # None <=> parse_distance_from_text(arg[1]) # None
        /\ ret # None =>
              /\ ret.planned_distance # None
              /\ ret.planned_distance = parse_distance_from_text(arg[1])
              /\ ret.workout_type = classify_workout_type(arg[1])

C9_Witness ==
    /\ pc = "returned"
    /\ arg[1] = Chars("5 tempo")
    /\ ret # None
    /\ ret.workout_type = "TEMPO"

\* the day offset of a header cell: the place of its name in Monday .. Sunday
C10_Offsets(col_name) ==
    IF col_name = NoneText THEN {}
    ELSE {k \in 0..6 : strip(lower(col_name)) = DAY_COLUMNS[k + 1]}

\* C10: every record a row adds is dated the row's week start plus the offset of the
\* weekday named in the header of the column the record's cell stands in.
C10_DateByHeaderName ==
    [][(pc = "rows" /\ row_num <= Len(CurTable) - 1) =>
        \A n \in (Len(workouts) + 1)..Len(workouts') :
            LET row == CurTable[row_num + 1]
                header == CurTable[1]
                week_start == parse_week_date(strip(row[1]), now)
            IN  \E j \in 1..Len(header) : \E k \in C10_Offsets(header[j]) :
                   /\ j <= Len(row)
                   /\ row[j] # NoneText
                   /\ workouts'[n].name = WorkoutName(Normalize(row[j]))
                   /\ workouts'[n].scheduled_date = isoformat(AddDays(week_start, k))]_vars

C10_Witness ==
    /\ pc = "rows"
    /\ page_num = 1 /\ table_num = 1
    /\ CurTable = TableB
    /\ now = <<2024, 8, 15>>
    /\ row_num = 5
    /\ Len(workouts) = 3
    /\ workouts[3].name = Chars("6 miles")
    /\ workouts[3].scheduled_date = Chars("2024-08-03")

\* the name the claim gives a cell text t: t itself up to 100 characters, beyond
\* that its first 97 characters and three dots
C11_Name(t) ==
    IF Len(t) <= 100 THEN t ELSE SubSeq(t, 1, 97) \o <<".", ".", ".">>

\* C11 as stated, of the cell as the table holds it: the name is the cell up to 100
\* characters, and a cell of 101 characters has a name of 100 characters ending in
\* three dots.
C11_AsClaimed ==
    (pc = "returned" /\ callee = "parse_workout_cell" /\ ret # None) =>
        /\ Len(ret.name) <= 100
        /\ ret.name = C11_Name(arg[1])

\* C11, amended: the name is made of the cell text after its whitespace is
\* normalized; it has at most 100 characters, is that text when the text has at most
\* 100 characters, and otherwise its first 97 characters followed by three dots.
C11_NameOfNormalizedCell ==
    (pc = "returned" /\ callee = "parse_workout_cell" /\ ret # None) =>
        /\ Len(ret.name) <= 100
        /\ ret.name = C11_Name(Normalize(arg[1]))
        /\ Len(Normalize(arg[1])) > 100 =>
              Len(ret.name) = 100 /\ SubSeq(ret.name, 98, 100) = <<".", ".", ".">>

C11_Witness ==
    /\ pc = "returned"
    /\ callee = "parse_workout_cell"
    /\ Len(arg[1]) = 101
    /\ Normalize(arg[1]) = arg[1]
    /\ ret # None
    /\ Len(ret.name) = 100
    /\ SubSeq(ret.name, 95, 100) = Chars("aaa...")

\* the ways of writing 0.5 and 25, each with the float it stands for
C12_OnBound ==
    {<<Chars("0.5"), <<<<>>, <<"5">> >> >>, <<Chars("0.50"), <<<<>>, <<"5">> >> >>,
     <<Chars("25"), <<<<"2", "5">>, <<>> >> >>, <<Chars("25.0"), <<<<"2", "5">>, <<>> >> >>,
     <<Chars("25."), <<<<"2", "5">>, <<>> >> >>}

C12_OffBound == {Chars("0.49"), Chars("25.01")}

\* C12: the range check is inclusive at both ends: a cell that is not dropped as rest
\* or cross-training and whose one number is 0.5 or 25 gives a record with that
\* distance, whatever stands around the number, and a cell whose one number is 0.49
\* or 25.01 gives no record.
C12_InclusiveBounds ==
    (pc = "returned" /\ callee = "parse_workout_cell" /\ ~C8_Dropped(arg[1])) =>
        \A b \in BoundaryBefore, a \in BoundaryAfter :
            /\ \A n \in C12_OnBound :
                  arg[1] = b \o n[1] \o a => (ret # None /\ ret.planned_distance = n[2])
            /\ \A n \in C12_OffBound :
                  arg[1] = b \o n \o a => ret = None

C12_Witness ==
    /\ pc = "returned"
    /\ callee = "parse_workout_cell"
    /\ arg[1] = Chars("to 25 miles")
    /\ ret # None
    /\ ret.planned_distance = <<<<"2", "5">>, <<>> >>

\* the text holds "tempo" and "easy"
C13_TempoAndEasy(text) == Contains(text, Chars("tempo")) /\ Contains(text, Chars("easy"))

\* C13 as stated: every text that holds "tempo" and "easy" is classified TEMPO.
C13_AsClaimed ==
    (pc = "returned" /\ callee = "classify_workout_type" /\ C13_TempoAndEasy(arg)) =>
        ret = <<"TEMPO">>

\* C13, amended: a text that holds "tempo" and "easy", in any case, is never
\* classified EASY; it is classified TEMPO unless it also holds "xt" or "cross", which
\* make it CROSS_TRAINING, or else "off", which makes it REST.
C13_TempoBeforeEasy ==
    (pc = "returned" /\ callee = "classify_workout_type" /\ C13_TempoAndEasy(lower(arg))) =>
        LET t == lower(arg)
        IN  /\ ret # <<"EASY">>
            /\ ret = <<IF Contains(t, Chars("xt")) \/ Contains(t, Chars("cross"))
                           THEN "CROSS_TRAINING"
                       ELSE IF Contains(t, Chars("off")) THEN "REST"
                       ELSE "TEMPO">>

C13_Witness ==
    /\ pc = "returned"
    /\ callee = "classify_workout_type"
    /\ arg = Chars("EASY\nTempo")
    /\ ret = <<"TEMPO">>

\* type, distance and day of July of the four records of the scenario
C14_Expected ==
    <<<<"EASY", <<Chars("3"), Chars("5")>>, Chars("-07-21")>>,
      <<"TEMPO", <<Chars("5"), <<>> >>, Chars("-07-23")>>,
      <<"EASY", <<Chars("4"), <<>> >>, Chars("-07-25")>>,
      <<"LONG", <<Chars("10"), <<>> >>, Chars("-07-27")>> >>

\* C14: for every current date the scenario document returns, without exception,
\* exactly four records: Monday EASY 3.5 on 21 July, Wednesday TEMPO 5, Friday EASY 4
\* and Sunday LONG 10 on 27 July, all of the resolved year, which for 21-Jul is the
\* current year.
C14_Scenario ==
    /\ pc \notin {"except", "raised"}
    /\ (pc = "done" /\ doc = <<<<ScenarioTable>>>>) =>
          /\ Len(result) = 4
          /\ \A i \in 1..4 :
                /\ result[i].workout_type = C14_Expected[i][1]
                /\ result[i].planned_distance = C14_Expected[i][2]
                /\ result[i].scheduled_date = YearText(now[1]) \o C14_Expected[i][3]

C14_Witness ==
    /\ pc = "done"
    /\ doc = <<<<ScenarioTable>>>>
    /\ now = <<2024, 12, 31>>
    /\ Len(result) = 4
    /\ result[4].scheduled_date = Chars("2024-07-27")

\* no cell of the header is a weekday name
C15_NoDayColumn(header) == \A j \in 1..Len(header) : C10_Offsets(header[j]) = {}

\* the day columns that lie within the row
C15_ColumnsWithin(row) ==
    LET Within_(e) == e[2] < Len(row) IN SelectSeq(day_col_indices, Within_)

\* C15: a page without tables, a table of fewer than two rows, the rows of a table
\* whose header names no weekday and a day column beyond the end of a row are stepped
\* over: no record is added for them, no exception is raised, nothing but the
\* position of the walk changes, and the walk goes on; a document without a table on
\* any page returns the empty list.
C15_GapsSkipped ==
    [][/\ (pc = "pages" /\ page_num <= Len(doc) /\ doc[page_num] = <<>>) =>
             /\ pc' = "pages" /\ page_num' = page_num + 1
             /\ UNCHANGED <<now, doc, workouts, exc, result>>
       /\ (pc = "tables" /\ table_num <= Len(doc[page_num]) /\ Len(CurTable) < 2) =>
             /\ pc' = "tables" /\ table_num' = table_num + 1
             /\ UNCHANGED <<now, doc, page_num, workouts, exc, result>>
       /\ (pc = "rows" /\ C15_NoDayColumn(CurTable[1])) =>
             /\ day_col_indices = <<>>
             /\ pc' \in {"rows", "tables"}
             /\ UNCHANGED <<now, doc, page_num, workouts, exc, result>>
       /\ (pc = "rows" /\ row_num <= Len(CurTable) - 1) =>
             /\ pc' = "rows" /\ row_num' = row_num + 1
             /\ workouts' = workouts \o
                   RowWorkouts(CurTable[row_num + 1], C15_ColumnsWithin(CurTable[row_num + 1]), now)
             /\ UNCHANGED <<now, doc, page_num, table_num, day_col_indices, exc, result>>
       /\ (pc' = "done" /\ doc # BadBytes /\ \A p \in 1..Len(doc) : doc[p] = <<>>) =>
             result' = <<>> /\ exc' = None]_vars

C15_Witness ==
    /\ pc = "done"
    /\ doc = << <<>>, <<TableD, TableA>> >>
    /\ exc = None
    /\ Len(result) = 3

\* a second invocation on the same bytes has returned
C16_Second == pc = "done" /\ ret # None

\* C16 as stated: two invocations on the same bytes, at any two times, return the same
\* list.
C16_AsClaimed == C16_Second => result = ret[1].result

\* C16, amended: the list is a function of the bytes and of the current date: two
\* invocations on the same bytes on the same date return the same list, nothing of
\* the first invocation reaching the second.
C16_SameBytesSameDate == (C16_Second /\ now = ret[1].now) => result = ret[1].result

C16_Witness ==
    /\ C16_Second
    /\ doc = <<<<TableA>>>>
    /\ now = ret[1].now
    /\ Len(result) = 3
    /\ result = ret[1].result

\* C17: the list does not depend on plan_start_date: two invocations on the same
\* bytes on the same date with different values of plan_start_date return the same
\* list; and every record has the four fields name, workout_type, planned_distance and
\* scheduled_date only, no target_pace_min_sec and no target_pace_max_sec.
C17_PlanStartIgnored ==
    /\ (C16_Second /\ now = ret[1].now /\ arg # ret[1].plan_start_date) =>
          result = ret[1].result
    /\ pc = "done" =>
          \A i \in 1..Len(result) :
              DOMAIN result[i] = {"name", "workout_type", "planned_distance", "scheduled_date"}

C17_Witness ==
    /\ C16_Second
    /\ doc = <<<<TableB>>>>
    /\ now = ret[1].now
    /\ ret[1].plan_start_date = <<2024, 7, 21>>
    /\ arg = <<2025, 1, 6>>
    /\ result # <<>>
    /\ result = ret[1].result

\* the dates update_plan validates: those of the body where it has them, else the
\* stored ones
C18_Combined(plan, plan_data) ==
    [start_date |-> IF plan_data.start_date # None THEN plan_data.start_date
                    ELSE plan.start_date,
     end_date |-> IF plan_data.end_date # None THEN plan_data.end_date ELSE plan.end_date]

\* C18: every stored plan ends strictly after it starts; a create whose end date is
\* on or before its start date, and an update of a stored plan whose dates, taken
\* together with the stored ones, end on or before the start, raise ValidationError,
\* no other update of a stored plan does, and a call that raised ValidationError
\* left the plans table as it was.
C18_EndAfterStart ==
    [][/\ \A id \in DOMAIN plans' :
              ToOrdinal(plans'[id].end_date) > ToOrdinal(plans'[id].start_date)
       /\ (request'.op = "create_plan"
              /\ ToOrdinal(request'.plan_data.end_date)
                     <= ToOrdinal(request'.plan_data.start_date)) =>
                  raised' = <<"ValidationError">>
       /\ (request'.op = "update_plan" /\ request'.plan_id \in DOMAIN plans) =>
              LET c == C18_Combined(plans[request'.plan_id], request'.plan_data)
              IN  raised' = <<"ValidationError">> <=>
                      ToOrdinal(c.end_date) <= ToOrdinal(c.start_date)
       /\ raised' = <<"ValidationError">> => plans' = plans]_vars

\* an update that gives only an end date, the stored start date, was refused
C18_Witness ==
    /\ request # <<>>
    /\ request.op = "update_plan"
    /\ request.plan_data.start_date = None
    /\ request.plan_data.end_date = <<2023, 1, 2>>
    /\ raised = <<"ValidationError">>
    /\ request.plan_id \in DOMAIN plans
    /\ plans[request.plan_id] = [start_date |-> <<2023, 1, 2>>, end_date |-> <<2023, 7, 1>>]


\* C19: every stored plan lasts at most MAX_DAYS days.
C19_DurationAtMost365 ==
    \A id \in DOMAIN plans : duration(plans[id].start_date, plans[id].end_date) <= MAX_DAYS


\* the workout is stored and belongs to the plan
C20_WorkoutOf(plan_id, workout_id) ==
    workout_id \in DOMAIN db_workouts /\ db_workouts[workout_id].plan_id = plan_id

\* every stored run with a workout_id references a stored workout of the run's plan
C20_Linked ==
    \A id \in DOMAIN runs :
        runs[id].workout_id # NoId =>
            /\ runs[id].workout_id \in DOMAIN db_workouts
            /\ db_workouts[runs[id].workout_id].plan_id = runs[id].plan_id

\* a delete_workout that deleted left every run stored, those of the workout with
\* workout_id null and the others as they were
C20_DeleteUnlinks ==
    (request'.op = "delete_workout" /\ raised' = None) =>
        /\ request'.workout_id \notin DOMAIN db_workouts'
        /\ DOMAIN runs' = DOMAIN runs
        /\ \A id \in DOMAIN runs :
              /\ runs'[id].plan_id = runs[id].plan_id
              /\ runs'[id].workout_id = IF runs[id].workout_id = request'.workout_id THEN NoId
                                        ELSE runs[id].workout_id

\* C20 as stated: create_run and update_run naming a workout that is not a stored
\* workout of the plan raise NotFoundError for Workout, whether or not the plan of
\* create_run or the run of update_run exists.
C20_AsClaimed ==
    [][/\ C20_Linked'
       /\ (request'.op = "create_run" /\ request'.run_data.workout_id # NoId
              /\ ~C20_WorkoutOf(request'.plan_id, request'.run_data.workout_id)) =>
                  raised' = <<"NotFoundError", "Workout">> /\ runs' = runs
       /\ (request'.op = "update_run" /\ request'.run_data.workout_id # NoId
              /\ ~(/\ request'.run_id \in DOMAIN runs
                   /\ C20_WorkoutOf(runs[request'.run_id].plan_id,
                                    request'.run_data.workout_id))) =>
                  raised' = <<"NotFoundError", "Workout">> /\ runs' = runs
       /\ C20_DeleteUnlinks]_vars

\* C20: every stored run with a workout_id references a stored workout of the run's
\* own plan; create_run for a stored plan and update_run of a stored run, naming a
\* workout that is not a stored workout of that plan, raise NotFoundError for Workout
\* and leave the runs as they were; a delete_workout leaves the runs of the workout
\* stored with workout_id null.
C20_LinksWithinPlan ==
    [][/\ C20_Linked'
       /\ (request'.op = "create_run" /\ request'.run_data.workout_id # NoId
              /\ request'.plan_id \in DOMAIN plans
              /\ ~C20_WorkoutOf(request'.plan_id, request'.run_data.workout_id)) =>
                  raised' = <<"NotFoundError", "Workout">> /\ runs' = runs
       /\ (request'.op = "update_run" /\ request'.run_data.workout_id # NoId
              /\ request'.run_id \in DOMAIN runs
              /\ ~C20_WorkoutOf(runs[request'.run_id].plan_id,
                                request'.run_data.workout_id)) =>
                  raised' = <<"NotFoundError", "Workout">> /\ runs' = runs
       /\ C20_DeleteUnlinks]_vars

\* an update_run naming a stored workout of the other plan was refused, and the run
\* keeps no workout after its own was deleted
C20_Witness ==
    /\ request.op = "update_run"
    /\ raised = <<"NotFoundError", "Workout">>
    /\ request.run_id \in DOMAIN runs
    /\ request.run_data.workout_id \in DOMAIN db_workouts
    /\ db_workouts[request.run_data.workout_id].plan_id # runs[request.run_id].plan_id
    /\ runs[request.run_id].workout_id = NoId
    /\ \E w \in WorkoutIds : w \in ids /\ w \notin DOMAIN db_workouts


\* the plan was stored once and is not stored now
C21_Deleted(p) == p \in ids /\ p \notin DOMAIN plans

\* C21: a delete_plan that succeeded leaves no workout and no run of the plan; every
\* later get, update and delete of the plan and every get of a workout through it
\* raises NotFoundError, answered 404, and the plan never comes back; a delete_plan of
\* a plan that is not stored raises NotFoundError and changes no table.
C21_DeletedStaysGone ==
    [][/\ (request'.op = "delete_plan" /\ raised' = None) =>
              /\ request'.plan_id \in DOMAIN plans
              /\ request'.plan_id \notin DOMAIN plans'
              /\ DOMAIN plans' = DOMAIN plans \ {request'.plan_id}
       /\ \A p \in PlanIds : C21_Deleted(p)' =>
              /\ \A w \in DOMAIN db_workouts' : db_workouts'[w].plan_id # p
              /\ \A r \in DOMAIN runs' : runs'[r].plan_id # p
       /\ \A p \in PlanIds : C21_Deleted(p) =>
              /\ C21_Deleted(p)'
              /\ (request'.op \in {"get_plan", "update_plan", "delete_plan", "get_workout"}
                     /\ request'.plan_id = p) =>
                        /\ raised'[1] = "NotFoundError"
                        /\ status_code(raised') = 404
       /\ (request'.op = "delete_plan" /\ request'.plan_id \notin DOMAIN plans) =>
              /\ raised' = <<"NotFoundError", "Plan">>
              /\ <<plans, db_workouts, runs>>' = <<plans, db_workouts, runs>>]_vars

\* p1 was deleted with its workout and its run, those of p2 are stored, and a later
\* get of the deleted plan's workout was refused
C21_Witness ==
    /\ C21_Deleted("p1")
    /\ DOMAIN db_workouts = {"w2"}
    /\ DOMAIN runs = {"r2"}
    /\ request = [op |-> "get_workout", plan_id |-> "p1", workout_id |-> "w1"]
    /\ raised = <<"NotFoundError", "Plan">>


\* the workouts of the plan
C22_Of(p) == {w \in DOMAIN db_workouts : db_workouts[w].plan_id = p}

\* the workouts of the plan some run is linked to
C22_Done(p) == {w \in C22_Of(p) : \E r \in DOMAIN runs : runs[r].workout_id = w}

\* C22: a get_plan_progress of a stored plan reports the number of the plan's
\* workouts, the number of them some run is linked to and the number of them no run
\* is linked to; completed lies within 0..total, completed + pending = total, and
\* adherence is 0 when total is 0.
C22_ProgressCounts ==
    [][(request'.op = "get_plan_progress" /\ raised' = None) =>
          LET p == request'.plan_id
          IN  /\ ret'.total_workouts = Cardinality(C22_Of(p))
              /\ ret'.completed_workouts = Cardinality(C22_Done(p))
              /\ ret'.pending_workouts = Cardinality(C22_Of(p) \ C22_Done(p))
              /\ 0 <= ret'.completed_workouts
              /\ ret'.completed_workouts <= ret'.total_workouts
              /\ ret'.completed_workouts + ret'.pending_workouts = ret'.total_workouts
              /\ ret'.total_workouts = 0 => ret'.adherence_percentage = 0]_vars

\* two runs on one workout of a plan of two workouts count once
C22_Witness ==
    /\ request.op = "get_plan_progress"
    /\ raised = None
    /\ \A r \in RunIds : r \in DOMAIN runs /\ runs[r] = [plan_id |-> request.plan_id,
                                                         workout_id |-> "w1"]
    /\ ret = [total_workouts |-> 2, completed_workouts |-> 1, pending_workouts |-> 1,
              adherence_percentage |-> 500]


\* C23: every stored workout has its two target paces both null, or both set within
\* MIN_PACE_SEC..MAX_PACE_SEC with the minimum no greater than the maximum.
C23_PacesValid ==
    \A w \in DOMAIN db_workouts :
        LET min_pace == db_workouts[w].target_pace_min_sec
            max_pace == db_workouts[w].target_pace_max_sec
        IN  \/ min_pace = None /\ max_pace = None
            \/ /\ min_pace # None
               /\ max_pace # None
               /\ min_pace[1] <= max_pace[1]
               /\ min_pace[1] \in MIN_PACE_SEC..MAX_PACE_SEC
               /\ max_pace[1] \in MIN_PACE_SEC..MAX_PACE_SEC


\* C24: a get_weekly_summary of a stored plan without week_number, asked for on a day
\* of the plan, returns the week that contains that day; with a week_number n it
\* returns exactly when 1 <= n <= (duration_days // 7) + 1 and raises ValidationError,
\* answered 400, otherwise.
C24_CurrentWeekByDefault ==
    [][(request'.op = "get_weekly_summary" /\ request'.plan_id \in DOMAIN plans) =>
          LET plan == plans[request'.plan_id]
              n == request'.week_number
          IN  /\ (n = None /\ ToOrdinal(plan.start_date) <= ToOrdinal(now)
                     /\ ToOrdinal(now) <= ToOrdinal(plan.end_date)) =>
                        /\ raised' = None
                        /\ ToOrdinal(ret'.start_date) <= ToOrdinal(now)
                        /\ ToOrdinal(now) <= ToOrdinal(ret'.end_date)
              /\ n # None =>
                    IF 1 <= n[1] /\ n[1] <= (DaysBetween(plan.end_date, plan.start_date) \div 7) + 1
                    THEN raised' = None /\ ret'.week_number = n[1]
                    ELSE raised' = <<"ValidationError">> /\ status_code(raised') = 400]_vars


\* C25: get_workout, update_workout and delete_workout called with a stored plan and
\* the id of a workout stored under another plan raise NotFoundError and leave the
\* workouts table as it was, that workout stored and unchanged.
C25_OnlyThroughOwnPlan ==
    [][(/\ request'.op \in {"get_workout", "update_workout", "delete_workout"}
        /\ request'.plan_id \in DOMAIN plans
        /\ request'.workout_id \in DOMAIN db_workouts
        /\ db_workouts[request'.workout_id].plan_id # request'.plan_id
        /\ db_workouts[request'.workout_id].plan_id \in DOMAIN plans) =>
            /\ raised' = <<"NotFoundError", "Workout">>
            /\ status_code(raised') = 404
            /\ db_workouts' = db_workouts
            /\ runs' = runs]_vars

\* an update through p1 of a workout of p2 that holds target paces was refused
C25_Witness ==
    /\ request.op = "update_workout"
    /\ request.plan_id = "p1"
    /\ request.workout_data.target_pace_min_sec = <<3000>>
    /\ raised = <<"NotFoundError", "Workout">>
    /\ request.workout_id \in DOMAIN db_workouts
    /\ db_workouts[request.workout_id] =
          [plan_id |-> "p2", target_pace_min_sec |-> <<180>>, target_pace_max_sec |-> <<180>>]


\* the number of the POSTs sent so far that came back 201
RECURSIVE C26_Created(_)
C26_Created(n) ==
    IF n = 0 THEN 0
    ELSE C26_Created(n - 1) + (IF posts[n].outcome = "201" THEN 1 ELSE 0)

\* C26: while import_pdf posts and when it has answered, the POSTs sent are those of
\* the first records of the list, one per record and in list order, whatever came
\* back for the earlier ones; workouts_created counts the POSTs that came back 201 and
\* workouts_failed the others; the answer after a non-empty list follows the POST of
\* the last record and its two counts add up to the number of records; after an empty
\* list the answer is 400 and no POST was sent.
C26_OnePostPerRecord ==
    /\ Len(posts) <= Len(result)
    /\ \A i \in 1..Len(posts) : posts[i].json = WorkoutData(result[i])
    /\ workouts_created = C26_Created(Len(posts))
    /\ workouts_failed = Len(posts) - workouts_created
    /\ pc = "posting" => Len(posts) = post_num - 1
    /\ (pc = "answered" /\ result # <<>>) =>
          /\ Len(posts) = Len(result)
          /\ response.status_code = 200
          /\ response.workouts_created = workouts_created
          /\ response.workouts_failed = workouts_failed
          /\ response.workouts_created + response.workouts_failed = Len(result)
    /\ (pc = "answered" /\ result = <<>>) =>
          /\ response = [status_code |-> 400]
          /\ posts = <<>>

\* the four records were posted although the first POST raised and the second came
\* back 404
C26_Witness ==
    /\ pc = "answered"
    /\ Len(result) = 4
    /\ Len(posts) = 4
    /\ posts[1].outcome = "RequestException"
    /\ posts[2].outcome = "404"
    /\ posts[3].outcome = "201"
    /\ posts[4].outcome = "201"
    /\ response.workouts_created = 2
    /\ response.workouts_failed = 2


\* C27: the users table never holds two rows of one email; of the register requests
\* for one email at most one is answered 201, its row is in the table, and every
\* other one that was answered was answered 400.
C27_OneUserPerEmail ==
    /\ \A u1 \in users, u2 \in users : u1.email = u2.email => u1 = u2
    /\ \A r1 \in RegIds, r2 \in RegIds :
          (/\ reg[r1].email = reg[r2].email
           /\ reg[r1].status_code = 201
           /\ reg[r2].status_code = 201) => r1 = r2
    /\ \A r \in RegIds :
          /\ reg[r].pc = "answered" => reg[r].status_code \in {201, 400}
          /\ reg[r].status_code = 201 => [id |-> r, email |-> reg[r].email] \in users

\* two requests for one email both passed the query; one was answered 201 and the
\* commit of the other was refused
C27_Witness ==
    \E r1 \in RegIds, r2 \in RegIds :
        /\ reg[r1].email = reg[r2].email
        /\ reg[r1].status_code = 201
        /\ reg[r2].status_code = 400
        /\ reg[r2].detail = "IntegrityError"


\* C28: every date parse_week_date resolves is at most RollAfterDays days before the
\* current date and less than 366 days after it, so that the date of each of the
\* seven days of its week, which is what a record is dated, lies between the current
\* date minus 180 days and the current date plus 372 days.
C28_ResolvedNearNow ==
    (pc = "returned" /\ ret # None) =>
        /\ DaysBetween(now, ret) <= RollAfterDays
        /\ DaysBetween(ret, now) < 366
        /\ \A k \in 0..(Len(DAY_COLUMNS) - 1) :
              /\ DaysBetween(AddDays(ret, k), now) >= -180
              /\ DaysBetween(AddDays(ret, k), now) <= 372

\* on 1 January of a leap year 31-Dec resolves to the date 365 days ahead
C28_Witness ==
    /\ pc = "returned"
    /\ arg = Chars("31-Dec")
    /\ now[2] = 1
    /\ now[3] = 1
    /\ ret # None
    /\ DaysBetween(ret, now) = 365

\* the type that a text holding "off" gets: CROSS_TRAINING with "xt" or "cross", else REST
C29_Expected(text) ==
    IF Contains(lower(text), Chars("xt")) \/ Contains(lower(text), Chars("cross"))
    THEN "CROSS_TRAINING"
    ELSE "REST"

\* C29: every text that holds "off", in any case, is classified REST, or CROSS_TRAINING
\* when it also holds "xt" or "cross"; so the SPEED keyword "min off" never decides, and
\* a cell such as "5 x 2 min on 1 min off", whose distance is in range, is returned as
\* a record of type REST.
C29_OffIsRest ==
    (pc = "returned" /\ callee = "parse_workout_cell"
        /\ Contains(lower(arg[1]), Chars("off"))) =>
        /\ classify_workout_type(arg[1]) = C29_Expected(arg[1])
        /\ ret # None => ret.workout_type = C29_Expected(arg[1])
        /\ Contains(lower(arg[1]), Chars("min off")) =>
               classify_workout_type(arg[1]) # "SPEED"

C29_Witness ==
    /\ pc = "returned"
    /\ callee = "parse_workout_cell"
    /\ arg[1] = Chars("5 x 2 min on 1 min off")
    /\ ret # None
    /\ ret.workout_type = "REST"
    /\ ret.name = Chars("5 x 2 min on 1 min off")
    /\ ret.planned_distance = <<Chars("5"), <<>>>>

\* C30: the body the import endpoint builds from a record of the parser satisfies
\* WorkoutCreate: its name is not empty once stripped, its workout_type is a value of
\* WorkoutType, its planned_distance lies within MIN_DISTANCE..MAX_DISTANCE, its
\* scheduled_date is an ISO date of the calendar and it holds neither pace field.
C30_RecordSatisfiesSchema ==
    (pc = "returned" /\ callee = "parse_workout_cell" /\ ret # None) =>
        LET body == WorkoutData(ret)
        IN  /\ validate_name(body.name)
            /\ validate_workout_type(body.workout_type)
            /\ validate_distance(body.planned_distance)
            /\ validate_date(body.scheduled_date)
            /\ "target_pace_min_sec" \notin DOMAIN body
            /\ "target_pace_max_sec" \notin DOMAIN body
            /\ WorkoutCreate(body)

C30_Witness ==
    /\ pc = "returned"
    /\ callee = "parse_workout_cell"
    /\ ret # None
    /\ ret.workout_type = "CROSS_TRAINING"
    /\ WorkoutCreate(WorkoutData(ret))

-----------------------------------------------------------------------------
====
